---- MODULE Spec2Model ----
(***************************************************************************)
(* Edit transactions of the keymap editor (src/src/keyboard/Keyboard.tsx): *)
(* every edit is a remote call to the device, the Local Keymap Replica     *)
(* (the React state `keymap`) is updated by the handler of the response,   *)
(* and the edit is registered with the undo/redo command stack.            *)
(*                                                                         *)
(* Indices (layer index, key position) are 0-based as in the source; a     *)
(* TLA+ sequence is indexed from 1, hence the "+ 1" where one is read.     *)
(* React state is modelled settled: an action is a handler together with   *)
(* the effects its state updates trigger (the clamp effect, the            *)
(* physical-layout effect). A handler that is invoked is the closure of    *)
(* the latest render: it captures the replica and the selection of the     *)
(* state it is invoked in; a callback kept on the undo or redo list keeps  *)
(* what it captured.                                                       *)
(***************************************************************************)
EXTENDS Integers, Sequences, FiniteSets, TLC

\* ------------------------------------------------------------------ bounds
\* Layer slots of the device: layers.length + availableLayers.
NumSlots == 3
\* Longest undo list: no new edit is issued once it is this long.
MaxHistory == 2
\* Most calls awaiting their response at once.
MaxOutstanding == 2
\* Most calls the device rejects although it could accept them (a call it
\* cannot accept is always rejected).
MaxRejections == 1

LayerIds == 0 .. (NumSlots - 1)
KeyPositions == {0}
Layouts == {0, 1}
Names == {"base", "fn"}
DefaultName == "base"

\* BehaviorBinding values {behaviorId, param1, param2}.
BindingA == [behaviorId |-> 1, param1 |-> 4, param2 |-> 0]
BindingB == [behaviorId |-> 1, param1 |-> 5, param2 |-> 0]
Bindings == {BindingA, BindingB}

\* ------------------------------------------------------------ sequences
\* Array.prototype.splice(i, 1): removes the element at 0-based index i, if any.
SpliceOut(s, i) ==
  IF i >= 0 /\ i < Len(s)
    THEN [j \in 1 .. (Len(s) - 1) |-> IF j <= i THEN s[j] ELSE s[j + 1]]
    ELSE s

\* Array.prototype.splice(i, 0, x): inserts x at 0-based index i (at the end
\* when i is beyond it).
SpliceIn(s, i, x) ==
  LET at == IF i > Len(s) THEN Len(s) ELSE i
  IN [j \in 1 .. (Len(s) + 1) |->
        IF j <= at THEN s[j] ELSE IF j = at + 1 THEN x ELSE s[j - 1]]

\* Array.prototype.findIndex(l => l.id == layerId): -1 when there is none.
FindIndex(layers, layerId) ==
  IF \E j \in 1 .. Len(layers) : layers[j].id = layerId
    THEN (CHOOSE j \in 1 .. Len(layers) :
            /\ layers[j].id = layerId
            /\ \A k \in 1 .. (j - 1) : layers[k].id # layerId) - 1
    ELSE -1

LayerIdsOf(layers) == {layers[j].id : j \in 1 .. Len(layers)}

DefaultBindings == [k \in 1 .. Cardinality(KeyPositions) |-> BindingA]

\* ---------------------------------------------------------------- state
VARIABLES
  device,                       \* the remote device: the source of truth
  keymap,                       \* useConnectedDeviceData<Keymap>: the replica
  selectedLayerIndex,           \* useState<number>(0)
  selectedPhysicalLayoutIndex,  \* useLayouts(): the selected layout
  undoStack,                    \* command stack: committed edits, newest first
  redoStack,                    \* command stack: undone edits, newest first
  performing,                   \* command stack: the step that is Performing
  rpc,                          \* calls awaiting their response, oldest first,
                                \* each with the replica at its issue (history)
  last,                         \* the outcome of the latest step (history)
  track,                        \* the newest device-confirmed edit (history)
  rejections,                   \* calls the device could accept but rejected
  conn,                         \* ConnectionContext: conn.conn is set
  lockState,                    \* LockStateContext
  imp,                          \* importKeymap: the run in progress
  behaviors,                    \* useBehaviors(): the behavior map
  layouts,                      \* useLayouts(): the physical layouts
  fetches,                      \* the fetches of the effects that are running
  changes,                      \* connection and lock changes so far
  panel                         \* KeyAssignPanel: its state and its props

vars == <<device, keymap, selectedLayerIndex, selectedPhysicalLayoutIndex,
          undoStack, redoStack, performing, rpc, last, track, rejections,
          conn, lockState, imp, behaviors, layouts, fetches, changes,
          panel>>

\* What the edits of the command stack leave alone.
aside == <<conn, lockState, imp, behaviors, layouts, fetches, changes, panel>>

Idle == [mode |-> "idle"]

\* LockState.ZMK_STUDIO_CORE_LOCK_STATE_UNLOCKED and _LOCKED.
Unlocked == "unlocked"
Locked == "locked"

\* No importKeymap is running.
NoImport == [pc |-> "idle"]

\* The replica before the keymap is loaded (keymap is undefined).
Unloaded == [loaded |-> FALSE]

\* The key assignment panel where it is not followed: SpecPanel follows it.
Unrendered == [rendered |-> FALSE]

\* --------------------------------------------------------------- device
\* The connected device, as the remote interface describes it. A removed
\* layer keeps its slot (name and bindings) so that it can be restored by id;
\* addLayer takes the free slot of lowest id and appends it.
DevKeymap(d) == [layers |-> d.layers, availableLayers |-> d.availableLayers]

\* The behaviors the device lists, in the order of its list, each with the
\* details it gives for it.
DeviceBehaviors ==
  <<[id |-> 1, displayName |-> "Key Press"],
    [id |-> 2, displayName |-> "Layer-Tap"]>>

\* The physical layouts the device reports.
DeviceLayouts == <<[name |-> "default"], [name |-> "alternate"]>>

\* useState<BehaviorMap>({}): no behavior.
EmptyMap == [id \in {} |-> id]

\* behavior_map once the details of the first n listed behaviors are in.
BehaviorMapOf(n) ==
  [id \in {DeviceBehaviors[j].id : j \in 1 .. n} |->
     CHOOSE dets \in {DeviceBehaviors[j] : j \in 1 .. n} : dets.id = id]

\* The calls the device can answer with its success discriminant.
DevValid(d, req) ==
  CASE req.call = "setLayerBinding" ->
         /\ req.layerId \in LayerIdsOf(d.layers)
         /\ req.keyPosition \in
              0 .. (Len(d.layers[FindIndex(d.layers, req.layerId) + 1].bindings) - 1)
    [] req.call = "moveLayer" ->
         /\ req.startIndex \in 0 .. (Len(d.layers) - 1)
         /\ req.destIndex \in 0 .. (Len(d.layers) - 1)
    [] req.call = "addLayer" -> d.availableLayers > 0
    [] req.call = "removeLayer" -> req.layerIndex \in 0 .. (Len(d.layers) - 1)
    [] req.call = "restoreLayer" ->
         /\ req.layerId \in LayerIds \ LayerIdsOf(d.layers)
         /\ req.atIndex \in 0 .. Len(d.layers)
    [] req.call = "setLayerProps" -> req.layerId \in LayerIdsOf(d.layers)
    [] req.call = "setActivePhysicalLayout" -> req.index \in Layouts

DevFreeId(d) ==
  CHOOSE id \in LayerIds \ LayerIdsOf(d.layers) :
    \A other \in LayerIds \ LayerIdsOf(d.layers) : id <= other

DevSlotLayer(d, id) ==
  [id |-> id, name |-> d.removed[id].name, bindings |-> d.removed[id].bindings]

DevEmptySlot == [name |-> DefaultName, bindings |-> DefaultBindings]

\* The device state after a call it accepts.
DevApply(d, req) ==
  CASE req.call = "setLayerBinding" ->
         LET li == FindIndex(d.layers, req.layerId) + 1
         IN [d EXCEPT !.layers[li].bindings[req.keyPosition + 1] = req.binding]
    [] req.call = "moveLayer" ->
         [d EXCEPT !.layers =
            SpliceIn(SpliceOut(d.layers, req.startIndex), req.destIndex,
                     d.layers[req.startIndex + 1])]
    [] req.call = "addLayer" ->
         LET id == DevFreeId(d)
         IN [d EXCEPT !.layers = Append(d.layers, DevSlotLayer(d, id)),
                      !.availableLayers = d.availableLayers - 1,
                      !.removed[id] = DevEmptySlot]
    [] req.call = "removeLayer" ->
         LET l == d.layers[req.layerIndex + 1]
         IN [d EXCEPT !.layers = SpliceOut(d.layers, req.layerIndex),
                      !.availableLayers = d.availableLayers + 1,
                      !.removed[l.id] = [name |-> l.name, bindings |-> l.bindings]]
    [] req.call = "restoreLayer" ->
         [d EXCEPT !.layers =
            SpliceIn(d.layers, req.atIndex, DevSlotLayer(d, req.layerId)),
                   !.availableLayers = d.availableLayers - 1,
                   !.removed[req.layerId] = DevEmptySlot]
    [] req.call = "setLayerProps" ->
         LET li == FindIndex(d.layers, req.layerId) + 1
         IN [d EXCEPT !.layers[li].name = req.name]
    [] req.call = "setActivePhysicalLayout" ->
         [d EXCEPT !.activeLayout = req.index]

\* The response to a call: the success payload is read off the device state
\* after the call (d2); an error carries nothing the handlers use.
DevResponse(d, d2, req, ok) ==
  IF ~ok THEN [ok |-> FALSE]
  ELSE CASE req.call = "addLayer" ->
              [ok |-> TRUE, index |-> Len(d.layers),
               layer |-> d2.layers[Len(d2.layers)]]
         [] req.call = "restoreLayer" ->
              [ok |-> TRUE, layer |-> d2.layers[req.atIndex + 1]]
         [] req.call \in {"moveLayer", "setActivePhysicalLayout"} ->
              [ok |-> TRUE, keymap |-> DevKeymap(d2)]
         [] OTHER -> [ok |-> TRUE]

\* --------------------------------------------- replica updates (immer)
\* produce(draft => { draft.layers[layer].bindings[keyPosition] = binding }).
\* With no layer at that index, or no keymap, the recipe throws and the
\* update is lost; so it is in the recipes below.
SetBindingAtEveryLayer(km, layer, keyPosition, binding) ==
  IF km # Unloaded /\ layer >= 0 /\ layer < Len(km.layers)
    THEN [km EXCEPT !.layers =
            [j \in 1 .. Len(km.layers) |->
               [km.layers[j] EXCEPT !.bindings[keyPosition + 1] = binding]]]
    ELSE km

SetBindingAt(km, layer, keyPosition, binding) ==
  IF km # Unloaded /\ layer >= 0 /\ layer < Len(km.layers)
    THEN [km EXCEPT !.layers[layer + 1].bindings[keyPosition + 1] = binding]
    ELSE km

\* produce(draft => { draft.layers.push(layer); draft.availableLayers-- }).
PushLayerKeepsBudget(km, layer) ==
  IF km = Unloaded THEN km
  ELSE [layers |-> Append(km.layers, layer),
        availableLayers |-> km.availableLayers]

PushLayer(km, layer) ==
  IF km = Unloaded THEN km
  ELSE [layers |-> Append(km.layers, layer),
        availableLayers |-> km.availableLayers - 1]

\* produce(draft => { draft.layers.splice(layerIndex, 1); draft.availableLayers++ }).
SpliceLayerOut(km, layerIndex) ==
  IF km = Unloaded THEN km
  ELSE [layers |-> SpliceOut(km.layers, layerIndex),
        availableLayers |-> km.availableLayers + 1]

\* produce(draft => { draft.layers.splice(atIndex, 0, layer); draft.availableLayers-- }).
SpliceLayerIn(km, atIndex, layer) ==
  IF km = Unloaded THEN km
  ELSE [layers |-> SpliceIn(km.layers, atIndex, layer),
        availableLayers |-> km.availableLayers - 1]

\* produce(draft => { draft.layers[findIndex(l => l.id == layerId)].name = name }).
\* With no layer of that id the recipe throws and the update is lost.
SetNameOf(km, layerId, name) ==
  IF km = Unloaded THEN km
  ELSE LET layer_index == FindIndex(km.layers, layerId)
       IN IF layer_index >= 0
            THEN [km EXCEPT !.layers[layer_index + 1].name = name]
            ELSE km

\* The component without the effect below: the selection is left as it is.
ClampEffectAbsent(km, sel) == sel

\* The effect on [keymap, selectedLayerIndex]: the selection is pulled back
\* to the last layer when it is beyond it; with no keymap it does nothing.
ClampEffect(km, sel) ==
  IF km = Unloaded THEN sel
  ELSE LET layers == Len(km.layers) - 1
       IN IF sel > layers THEN layers ELSE sel

\* --------------------------------------------- handlers of the responses
\* Each takes the closure of the edit (e), the response, and the current
\* replica and selection; it yields the new replica and selection, whether
\* the promise was rejected (thrown), and the value the inverse captures.
Settled(km, sel, thrown) == [keymap |-> km, sel |-> sel, thrown |-> thrown]

\* doUpdateBinding: the callback given to undoRedo.
doUpdateBindingPerform(e, resp, km, sel) ==
  IF resp.ok
    THEN Settled(SetBindingAt(km, e.layer, e.keyPosition, e.binding), sel, FALSE)
    ELSE Settled(km, sel, FALSE)

\* doUpdateBinding: the callback it returns.
doUpdateBindingInverse(e, resp, km, sel) ==
  IF resp.ok
    THEN Settled(SetBindingAt(km, e.layer, e.keyPosition, e.oldBinding), sel, FALSE)
    ELSE Settled(km, sel, FALSE)

\* moveLayer.doMove(startIndex, destIndex).
doMove(startIndex, destIndex, resp, km, sel) ==
  IF resp.ok
    THEN Settled(resp.keymap, destIndex, FALSE)
    ELSE Settled(km, sel, FALSE)

\* addLayer.doAdd: newSelection is the layer count of the closure's keymap.
doAdd(e, resp, km, sel) ==
  IF resp.ok
    THEN Settled(PushLayer(km, resp.layer), e.newSelection, FALSE)
    ELSE Settled(km, sel, TRUE)

\* addLayer.doRemove(layerIndex).
addLayerDoRemove(layerIndex, resp, km, sel) ==
  IF resp.ok
    THEN Settled(SpliceLayerOut(km, layerIndex), sel, FALSE)
    ELSE Settled(km, sel, TRUE)

\* A doRemove that selects the first layer, not the one before the removed.
removeLayerDoRemoveSelectsFirst(layerIndex, layerCount, resp, km, sel) ==
  IF resp.ok
    THEN Settled(SpliceLayerOut(km, layerIndex),
                 IF layerIndex = layerCount - 1 THEN 0 ELSE sel,
                 FALSE)
    ELSE Settled(km, sel, TRUE)

\* removeLayer.doRemove(layerIndex): layerCount is the layer count of the
\* closure's keymap.
removeLayerDoRemove(layerIndex, layerCount, resp, km, sel) ==
  IF resp.ok
    THEN Settled(SpliceLayerOut(km, layerIndex),
                 IF layerIndex = layerCount - 1 THEN layerIndex - 1 ELSE sel,
                 FALSE)
    ELSE Settled(km, sel, TRUE)

\* removeLayer.doRestore(layerId, atIndex).
doRestore(atIndex, resp, km, sel) ==
  IF resp.ok
    THEN Settled(SpliceLayerIn(km, atIndex, resp.layer), atIndex, FALSE)
    ELSE Settled(km, sel, TRUE)

\* changeLayerName.changeName(layerId, name).
changeName(layerId, name, resp, km, sel) ==
  IF resp.ok
    THEN Settled(SetNameOf(km, layerId, name), sel, FALSE)
    ELSE Settled(km, sel, TRUE)

\* ------------------------------------------------ the edits as commands
\* An edit is the closure its callback captured. The request of its forward
\* callback and of the inverse the forward callback returned:
ForwardReq(e) ==
  CASE e.kind = "setBinding" ->
         [call |-> "setLayerBinding", layerId |-> e.layerId,
          keyPosition |-> e.keyPosition, binding |-> e.binding]
    [] e.kind = "moveLayer" ->
         [call |-> "moveLayer", startIndex |-> e.start, destIndex |-> e.end]
    [] e.kind = "addLayer" -> [call |-> "addLayer"]
    [] e.kind = "removeLayer" -> [call |-> "removeLayer", layerIndex |-> e.index]
    [] e.kind = "rename" ->
         [call |-> "setLayerProps", layerId |-> e.id, name |-> e.newName]

InverseReq(e) ==
  CASE e.kind = "setBinding" ->
         [call |-> "setLayerBinding", layerId |-> e.layerId,
          keyPosition |-> e.keyPosition, binding |-> e.oldBinding]
    [] e.kind = "moveLayer" ->
         [call |-> "moveLayer", startIndex |-> e.end, destIndex |-> e.start]
    [] e.kind = "addLayer" -> [call |-> "removeLayer", layerIndex |-> e.index]
    [] e.kind = "removeLayer" ->
         [call |-> "restoreLayer", layerId |-> e.layerId, atIndex |-> e.index]
    [] e.kind = "rename" ->
         [call |-> "setLayerProps", layerId |-> e.id, name |-> e.oldName]

Forward(e, resp, km, sel) ==
  CASE e.kind = "setBinding" -> doUpdateBindingPerform(e, resp, km, sel)
    [] e.kind = "moveLayer" -> doMove(e.start, e.end, resp, km, sel)
    [] e.kind = "addLayer" -> doAdd(e, resp, km, sel)
    [] e.kind = "removeLayer" ->
         removeLayerDoRemove(e.index, e.layerCount, resp, km, sel)
    [] e.kind = "rename" -> changeName(e.id, e.newName, resp, km, sel)

Inverse(e, resp, km, sel) ==
  CASE e.kind = "setBinding" -> doUpdateBindingInverse(e, resp, km, sel)
    [] e.kind = "moveLayer" -> doMove(e.end, e.start, resp, km, sel)
    [] e.kind = "addLayer" -> addLayerDoRemove(e.index, resp, km, sel)
    [] e.kind = "removeLayer" -> doRestore(e.index, resp, km, sel)
    [] e.kind = "rename" -> changeName(e.id, e.oldName, resp, km, sel)

\* ------------------------------------------------- the command stack
\* The undo/redo stack (../undoRedo) that Keyboard.tsx hands its callbacks
\* to. An item of a list is a command: the closure of its callbacks.
\* Only one step is Performing at a time.
CanPerform == performing = Idle

\* A stack whose Committed keeps the redo list (branching redo).
CommittedKeepsRedo(item, undo, redo) == [undo |-> <<item>> \o undo, redo |-> redo]

\* Committed: the inverse goes onto the undo list, the redo list is cleared.
Committed(item, undo, redo) == [undo |-> <<item>> \o undo, redo |-> <<>>]

\* A successful Undo moves the newest undo item to the redo list.
Undone(item, undo, redo) == [undo |-> Tail(undo), redo |-> <<item>> \o redo]

\* A successful Redo moves the newest redo item back onto the undo list.
Redone(item, undo, redo) == [undo |-> <<item>> \o undo, redo |-> Tail(redo)]

\* Failed: both lists stay as they are.
Failed(undo, redo) == [undo |-> undo, redo |-> redo]

\* The lists after a step of the given mode settles.
StackAfter(mode, thrown, item, undo, redo) ==
  IF thrown THEN Failed(undo, redo)
  ELSE CASE mode = "do" -> Committed(item, undo, redo)
         [] mode = "undo" -> Undone(item, undo, redo)
         [] mode = "redo" -> Redone(item, undo, redo)

\* ------------------------------------------------------------- history
\* track follows the newest edit E the device confirmed: the replica before
\* and after E, and whether E is done or (by a confirmed undo) undone. Any
\* other settled step of the stack ends the tracking.
Untracked == [phase |-> "none"]

TrackAfter(mode, ok, thrown, pre, post) ==
  CASE mode = "do" /\ ok /\ ~thrown -> [phase |-> "done", pre |-> pre, post |-> post]
    [] mode = "undo" /\ ok /\ ~thrown /\ track.phase = "done" ->
         [track EXCEPT !.phase = "undone"]
    [] mode = "redo" /\ ok /\ ~thrown /\ track.phase = "undone" ->
         [track EXCEPT !.phase = "done"]
    [] OTHER -> Untracked

\* The settled step removes the layer that is the last one of the replica
\* and the selected one.
RemovesLastSelected(p, ok) ==
  /\ ok
  /\ p.mode # "undo"
  /\ p.cmd.kind = "removeLayer"
  /\ keymap # Unloaded
  /\ p.cmd.index = Len(keymap.layers) - 1
  /\ p.cmd.index = selectedLayerIndex

\* ----------------------------------------------------------------- Init
InitLayer(id) == [id |-> id, name |-> DefaultName, bindings |-> DefaultBindings]

InitDevice ==
  [layers |-> <<InitLayer(0), InitLayer(1)>>,
   availableLayers |-> NumSlots - 2,
   removed |-> [id \in LayerIds |-> DevEmptySlot],
   activeLayout |-> 0]

Init ==
  /\ device = InitDevice
  /\ keymap = DevKeymap(InitDevice)
  /\ selectedLayerIndex = 0
  /\ selectedPhysicalLayoutIndex = 0
  /\ undoStack = <<>>
  /\ redoStack = <<>>
  /\ performing = Idle
  /\ rpc = <<>>
  /\ last = [ev |-> "init"]
  /\ track = Untracked
  /\ rejections = 0
  /\ conn = TRUE
  /\ lockState = Unlocked
  /\ imp = NoImport
  /\ behaviors = BehaviorMapOf(Len(DeviceBehaviors))
  /\ layouts = DeviceLayouts
  /\ fetches = {}
  /\ changes = 0
  /\ panel = Unrendered

\* -------------------------------------------------------------- actions
\* undoRedo(callback): the callback runs up to its call_rpc and the step is
\* Performing until the response is handled.
Issue(mode, e, req) ==
  /\ Len(rpc) < MaxOutstanding
  /\ performing' = [mode |-> mode, cmd |-> e]
  /\ rpc' = Append(rpc, [req |-> req, owner |-> "stack", pre |-> keymap,
                        session |-> changes])
  /\ last' = [ev |-> "issue", mode |-> mode, kind |-> e.kind]
  /\ UNCHANGED <<device, keymap, selectedLayerIndex,
                 selectedPhysicalLayoutIndex, undoStack, redoStack, track, rejections>>
  /\ UNCHANGED aside

\* LayerPicker onLayerClicked = setSelectedLayerIndex.
SelectLayer(i) ==
  /\ keymap # Unloaded
  /\ i \in 0 .. (Len(keymap.layers) - 1)
  /\ i # selectedLayerIndex
  /\ selectedLayerIndex' = i
  /\ last' = [ev |-> "select"]
  /\ UNCHANGED <<device, keymap, selectedPhysicalLayoutIndex, undoStack,
                 redoStack, performing, rpc, track, rejections>>
  /\ UNCHANGED aside

\* KeyAssignPanel onBindingChanged, on the key position that is selected.
doUpdateBinding(keyPosition, binding) ==
  /\ keymap # Unloaded
  /\ CanPerform
  /\ Len(undoStack) < MaxHistory
  /\ selectedLayerIndex \in 0 .. (Len(keymap.layers) - 1)
  /\ LET layer == selectedLayerIndex
         e == [kind |-> "setBinding",
               layer |-> layer,
               layerId |-> keymap.layers[layer + 1].id,
               keyPosition |-> keyPosition,
               binding |-> binding,
               oldBinding |-> keymap.layers[layer + 1].bindings[keyPosition + 1]]
     IN Issue("do", e, ForwardReq(e))

\* LayerPicker onLayerMoved(start, end): a layer dragged to another place.
moveLayer(start, end) ==
  /\ keymap # Unloaded
  /\ CanPerform
  /\ Len(undoStack) < MaxHistory
  /\ start \in 0 .. (Len(keymap.layers) - 1)
  /\ end \in 0 .. (Len(keymap.layers) - 1)
  /\ start # end
  /\ LET e == [kind |-> "moveLayer", start |-> start, end |-> end]
     IN Issue("do", e, ForwardReq(e))

\* LayerPicker onAddClicked, offered while canAdd.
addLayer ==
  /\ keymap # Unloaded
  /\ CanPerform
  /\ Len(undoStack) < MaxHistory
  /\ keymap.availableLayers > 0
  /\ LET e == [kind |-> "addLayer", newSelection |-> Len(keymap.layers),
               index |-> -1, added |-> -1]
     IN Issue("do", e, ForwardReq(e))

\* LayerPicker onRemoveClicked, offered while canRemove.
removeLayer ==
  /\ keymap # Unloaded
  /\ CanPerform
  /\ Len(undoStack) < MaxHistory
  /\ Len(keymap.layers) > 1
  /\ selectedLayerIndex \in 0 .. (Len(keymap.layers) - 1)
  /\ LET index == selectedLayerIndex
         e == [kind |-> "removeLayer", index |-> index,
               layerId |-> keymap.layers[index + 1].id,
               layerCount |-> Len(keymap.layers)]
     IN Issue("do", e, ForwardReq(e))

\* LayerPicker onLayerNameChanged(id, oldName, newName): oldName is the name
\* the layer shows, newName another one.
changeLayerName(id, newName) ==
  /\ keymap # Unloaded
  /\ CanPerform
  /\ Len(undoStack) < MaxHistory
  /\ id \in LayerIdsOf(keymap.layers)
  /\ LET oldName == keymap.layers[FindIndex(keymap.layers, id) + 1].name
         e == [kind |-> "rename", id |-> id, oldName |-> oldName,
               newName |-> newName]
     IN /\ newName # oldName
        /\ Issue("do", e, ForwardReq(e))

\* The callback of doSelectPhysicalLayout and its inverse await nothing: the
\* step settles at once. The effect on [selectedPhysicalLayoutIndex] then
\* runs performSetRequest, which sends the layout to the device unless there
\* is no connection or no layout list.
SetLayout(mode, item, index) ==
  LET after == StackAfter(mode, FALSE, item, undoStack, redoStack)
  IN /\ Len(rpc) < MaxOutstanding
     /\ selectedPhysicalLayoutIndex' = index
     /\ undoStack' = after.undo
     /\ redoStack' = after.redo
     /\ rpc' = IF index # selectedPhysicalLayoutIndex /\ conn
                       /\ layouts # Unloaded
                 THEN Append(rpc, [req |-> [call |-> "setActivePhysicalLayout",
                                            index |-> index],
                                   owner |-> "effect", pre |-> keymap,
                                   session |-> changes])
                 ELSE rpc
     /\ last' = [ev |-> "settled", mode |-> mode, kind |-> "physicalLayout",
                 ok |-> FALSE, thrown |-> FALSE,
                 redoBefore |-> Len(redoStack), lastSelected |-> FALSE,
                 clamped |-> FALSE]
     /\ track' = Untracked
     /\ UNCHANGED <<device, keymap, selectedLayerIndex, performing, rejections>>
     /\ UNCHANGED aside

\* PhysicalLayoutPicker onPhysicalLayoutClicked(i).
doSelectPhysicalLayout(i) ==
  /\ layouts # Unloaded
  /\ CanPerform
  /\ Len(undoStack) < MaxHistory
  /\ i \in Layouts
  /\ LET e == [kind |-> "physicalLayout", i |-> i,
               oldLayout |-> selectedPhysicalLayoutIndex]
     IN SetLayout("do", e, i)

\* What a callback does when it finds conn.conn unset: it throws "Not
\* connected" (TRUE) or returns having done nothing (FALSE). The callbacks of
\* doUpdateBinding throw on the way forward and return on the way back, doMove
\* returns, and those of addLayer, removeLayer and changeLayerName throw.
NotConnectedThrows(mode, e) ==
  CASE e.kind = "setBinding" -> mode # "undo"
    [] e.kind = "moveLayer" -> FALSE
    [] OTHER -> TRUE

\* A step of the stack whose callback finds no connection: it settles at
\* once, with no call.
NotConnected(mode, e) ==
  LET thrown == NotConnectedThrows(mode, e)
      after == StackAfter(mode, thrown, e, undoStack, redoStack)
  IN /\ undoStack' = after.undo
     /\ redoStack' = after.redo
     /\ last' = [ev |-> "notConnected", mode |-> mode, kind |-> e.kind,
                 thrown |-> thrown]
     /\ track' = Untracked
     /\ UNCHANGED <<device, keymap, selectedLayerIndex,
                    selectedPhysicalLayoutIndex, performing, rpc, rejections>>
     /\ UNCHANGED aside

\* AppHeader onUndo, enabled while canUndo: runs the newest inverse.
Undo ==
  /\ CanPerform
  /\ undoStack # <<>>
  /\ LET e == Head(undoStack)
     IN CASE e.kind = "physicalLayout" -> SetLayout("undo", e, e.oldLayout)
          [] e.kind # "physicalLayout" /\ conn -> Issue("undo", e, InverseReq(e))
          [] OTHER -> NotConnected("undo", e)

\* AppHeader onRedo, enabled while canRedo: runs the newest undone callback.
Redo ==
  /\ CanPerform
  /\ redoStack # <<>>
  /\ LET e == Head(redoStack)
     IN CASE e.kind = "physicalLayout" -> SetLayout("redo", e, e.i)
          [] e.kind # "physicalLayout" /\ conn -> Issue("redo", e, ForwardReq(e))
          [] OTHER -> NotConnected("redo", e)

\* performSetRequest after its call_rpc: the keymap the device sent replaces
\* the replica.
performSetRequest(resp, km) == IF resp.ok THEN resp.keymap ELSE km

\* The item a settled step of the stack puts on a list. The forward callback
\* of addLayer returns an inverse that holds the index the device reported;
\* the redo list holds the forward callback alone. added is the id of the
\* layer the device added (history).
SettledItem(p, resp) ==
  IF p.cmd.kind = "addLayer"
    THEN [p.cmd EXCEPT !.index = IF p.mode # "undo" /\ resp.ok
                                   THEN resp.index ELSE -1,
                       !.added = IF p.mode # "undo" /\ resp.ok
                                   THEN resp.layer.id ELSE -1]
    ELSE p.cmd

\* While the device is locked it rejects every call.
DevAccepts(req) == lockState = Unlocked /\ DevValid(device, req)

\* The device rejects a call it could have accepted.
Refused(ok) == ~ok /\ DevAccepts(Head(rpc).req)

\* The continuation of a call_rpc of the stack or of the effect, run on its
\* response.
Continuation(c, resp, ok) ==
  /\ IF c.owner = "effect"
       THEN LET km == performSetRequest(resp, keymap)
            IN /\ keymap' = km
               /\ selectedLayerIndex' = ClampEffect(km, selectedLayerIndex)
               /\ last' = [ev |-> "effect", ok |-> ok]
               /\ UNCHANGED <<undoStack, redoStack, performing, track>>
       ELSE LET p == performing
                r == IF p.mode = "undo"
                       THEN Inverse(p.cmd, resp, keymap, selectedLayerIndex)
                       ELSE Forward(p.cmd, resp, keymap, selectedLayerIndex)
                after == StackAfter(p.mode, r.thrown, SettledItem(p, resp),
                                    undoStack, redoStack)
            IN /\ keymap' = r.keymap
               /\ selectedLayerIndex' = ClampEffect(r.keymap, r.sel)
               /\ undoStack' = after.undo
               /\ redoStack' = after.redo
               /\ performing' = Idle
               /\ track' = TrackAfter(p.mode, ok, r.thrown, keymap, r.keymap)
               /\ last' = [ev |-> "settled", mode |-> p.mode,
                           kind |-> p.cmd.kind, ok |-> ok,
                           thrown |-> r.thrown,
                           redoBefore |-> Len(redoStack),
                           lastSelected |-> RemovesLastSelected(p, ok),
                           clamped |->
                             ClampEffect(r.keymap, r.sel) # r.sel]
  /\ UNCHANGED selectedPhysicalLayoutIndex

\* The device answers the oldest outstanding call, accepting it (if it can)
\* or rejecting it, and the continuation of that call_rpc runs.
Respond(ok) ==
  /\ rpc # <<>>
  /\ Head(rpc).owner \in {"stack", "effect"}
  /\ ok => DevAccepts(Head(rpc).req)
  /\ Refused(ok) => rejections < MaxRejections
  /\ rejections' = IF Refused(ok) THEN rejections + 1 ELSE rejections
  /\ LET c == Head(rpc)
         d2 == IF ok THEN DevApply(device, c.req) ELSE device
         resp == DevResponse(device, d2, c.req, ok)
     IN /\ device' = d2
        /\ rpc' = Tail(rpc)
        /\ Continuation(c, resp, ok)
        /\ UNCHANGED aside

Next ==
  \/ \E i \in 0 .. (NumSlots - 1) : SelectLayer(i)
  \/ \E k \in KeyPositions, b \in Bindings : doUpdateBinding(k, b)
  \/ \E start, end \in 0 .. (NumSlots - 1) : moveLayer(start, end)
  \/ addLayer
  \/ removeLayer
  \/ \E id \in LayerIds, name \in Names : changeLayerName(id, name)
  \/ \E i \in Layouts : doSelectPhysicalLayout(i)
  \/ Undo
  \/ Redo
  \/ \E ok \in BOOLEAN : Respond(ok)

Spec == Init /\ [][Next]_vars

\* ------------------------------------------------------------ statements
\* C1: whenever no remote call is outstanding, the Local Keymap Replica
\* (layer order, ids, names, every binding, remaining-layer budget) equals
\* the keymap of the device.
C1_ReplicaEqualsDevice == rpc = <<>> => keymap = DevKeymap(device)

\* The step is the handling of the response to the call of the stack's
\* Performing step of the given mode.
SettlesStep(mode) ==
  /\ rpc # <<>>
  /\ Head(rpc).owner = "stack"
  /\ performing.mode = mode
  /\ performing' = Idle

\* C2: when the device answers the call of a new edit (set-binding,
\* move-layer, add-layer, remove-layer, rename-layer) with an error, the edit
\* is abandoned: the replica is unchanged, nothing is pushed onto the undo
\* list and the redo list is not cleared.
C2_RejectedEditAbandoned ==
  [][(SettlesStep("do") /\ ~last'.ok) =>
       /\ keymap' = keymap
       /\ undoStack' = undoStack
       /\ redoStack' = redoStack]_vars

\* C3: undoing a committed (device-confirmed) edit E, the undo confirmed by
\* the device too, leaves the replica equal to its value before E; redoing E
\* after that undo leaves it equal to its value after E.
C3_UndoRedoRestore ==
  [][/\ (SettlesStep("undo") /\ last'.ok /\ track.phase = "done")
          => keymap' = track.pre
     /\ (SettlesStep("redo") /\ last'.ok /\ track.phase = "undone")
          => keymap' = track.post]_vars

\* C5: when the inverse run by Undo fails (the device rejects its call), the
\* undo list is unchanged, nothing is moved to the redo list and the failure
\* reaches the caller (the promise is rejected); Redo likewise.
C5_FailedUndoRedoKeepsLists ==
  [][((SettlesStep("undo") \/ SettlesStep("redo")) /\ ~last'.ok) =>
       /\ undoStack' = undoStack
       /\ redoStack' = redoStack
       /\ last'.thrown]_vars

\* The step handles a response (of the stack's call or of the effect's).
HandlesResponse == rpc # <<>> /\ rpc' = Tail(rpc)

\* The step settles a step of the stack without failure.
Settles(mode) == last'.ev = "settled" /\ last'.mode = mode /\ ~last'.thrown

\* C4: committing a new edit empties the redo list, and with an empty redo
\* list no step is a redo: none issues a call or changes the replica or the
\* undo list on behalf of Redo.
C4_NewEditClearsRedo ==
  [][/\ Settles("do") => redoStack' = <<>>
     /\ redoStack = <<>> =>
          ~(last'.ev \in {"issue", "settled"} /\ last'.mode = "redo")]_vars

C4_Witness ==
  /\ last.ev = "settled"
  /\ last.mode = "do"
  /\ ~last.thrown
  /\ last.redoBefore > 0
  /\ redoStack = <<>>
  /\ undoStack # <<>>

\* C6: the replica is never updated optimistically: while a call is
\* outstanding the replica equals its value at the issue of that call, and
\* the replica changes only in a step that handles a success response.
C6_NoOptimisticUpdate ==
  [][/\ \A j \in 1 .. Len(rpc) : keymap = rpc[j].pre
     /\ keymap' # keymap =>
          (HandlesResponse /\ last'.ev \in {"settled", "effect"} /\ last'.ok)]_vars

\* C7: at most one mutating call is outstanding at any time.
C7_OneOutstanding == Len(rpc) <= 1

\* C8: undoing the removal of a layer puts back, at the index it was removed
\* from, a layer with the id, name and bindings the removed layer had in the
\* replica before the removal.
C8_RestoreSameLayer ==
  [][(/\ SettlesStep("undo")
      /\ last'.ok
      /\ performing.cmd.kind = "removeLayer"
      /\ track.phase = "done") =>
       LET at == performing.cmd.index + 1
       IN /\ at <= Len(keymap'.layers)
          /\ keymap'.layers[at] = track.pre.layers[at]]_vars

\* C9: when a removal commits and the removed layer is the last layer of
\* the replica and the selected one, the selection becomes the new last
\* index: the old index minus one.
C9_SelectionFollowsRemoval ==
  [][((SettlesStep("do") \/ SettlesStep("redo"))
        /\ RemovesLastSelected(performing, last'.ok)) =>
       /\ selectedLayerIndex' = performing.cmd.index - 1
       /\ selectedLayerIndex' = Len(keymap'.layers) - 1]_vars

C9_Witness ==
  /\ last.ev = "settled"
  /\ last.lastSelected
  /\ Len(keymap.layers) >= 2
  /\ selectedLayerIndex = Len(keymap.layers) - 1

\* C10: with at least one layer in the replica, the selected layer index is
\* an index of the layer list.
C10_SelectionInRange ==
  Len(keymap.layers) >= 1 =>
    selectedLayerIndex \in 0 .. (Len(keymap.layers) - 1)

C10_Witness ==
  /\ last.ev = "settled"
  /\ last.clamped
  /\ Len(keymap.layers) >= 1
  /\ selectedLayerIndex = Len(keymap.layers) - 1

\* ------------------------------------------------------------ importKeymap
\* Most layers of an imported document, and most bindings of one of them.
MaxDocLayers == 2
MaxDocKeys == 2

\* A field the parsed document does not have (undefined).
Undefined == -1

\* An entry of a bindings list: a binding, null, or an object with fields
\* missing.
NullEntry == [null |-> TRUE]
PartialEntry == [behaviorId |-> 1, param1 |-> Undefined, param2 |-> Undefined]
DocEntries == {BindingA, NullEntry, PartialEntry}

\* A layer of the document: with a bindings list, or without one.
NoBindings == [name |-> "layer"]
DocLayers ==
  {NoBindings} \cup
    {[bindings |-> b] : b \in UNION {[1 .. n -> DocEntries] : n \in 1 .. MaxDocKeys}}

\* The file as importKeymap sees it: text that is not JSON, JSON without a
\* layers array, or the layers array (importedLayers).
InvalidJson == [json |-> FALSE]
\* The file of an import that ended before it read the file.
Unread == [read |-> FALSE]
NotArray == [json |-> TRUE, isArray |-> FALSE]
Documents ==
  {InvalidJson, NotArray} \cup
    {[json |-> TRUE, isArray |-> TRUE, layers |-> l] :
       l \in UNION {[1 .. n -> DocLayers] : n \in 0 .. MaxDocLayers}}

Min(a, b) == IF a < b THEN a ELSE b

\* x ?? 0
OrZero(x) == IF x = Undefined THEN 0 ELSE x

\* The binding importKeymap builds from an entry of the document.
ImportedBinding(nextBinding) ==
  [behaviorId |-> OrZero(nextBinding.behaviorId),
   param1 |-> OrZero(nextBinding.param1),
   param2 |-> OrZero(nextBinding.param2)]

\* A comparison that looks at the behavior alone.
SameBindingById(oldBinding, binding) == oldBinding.behaviorId = binding.behaviorId

\* The comparison that makes importKeymap skip a position.
SameBinding(oldBinding, binding) ==
  /\ oldBinding.behaviorId = binding.behaviorId
  /\ oldBinding.param1 = binding.param1
  /\ oldBinding.param2 = binding.param2

\* The two loops of importKeymap from (layerIndex, keyPosition) on, up to the
\* next call_rpc: the call to make, or none when the loops end. km is the
\* keymap the callback captured.
RECURSIVE ImportScan(_, _, _, _)
ImportScan(km, importedLayers, layerIndex, keyPosition) ==
  LET maxLayers == Min(Len(km.layers), Len(importedLayers))
  IN IF layerIndex >= maxLayers THEN [found |-> FALSE]
     ELSE
       LET currentBindings == km.layers[layerIndex + 1].bindings
           layerDoc == importedLayers[layerIndex + 1]
       IN IF "bindings" \notin DOMAIN layerDoc
            THEN ImportScan(km, importedLayers, layerIndex + 1, 0)
          ELSE
            LET nextBindings == layerDoc.bindings
                maxKeys == Min(Len(currentBindings), Len(nextBindings))
            IN IF keyPosition >= maxKeys
                 THEN ImportScan(km, importedLayers, layerIndex + 1, 0)
               ELSE
                 LET oldBinding == currentBindings[keyPosition + 1]
                     nextBinding == nextBindings[keyPosition + 1]
                 IN IF nextBinding = NullEntry
                      THEN ImportScan(km, importedLayers, layerIndex, keyPosition + 1)
                    ELSE IF SameBinding(oldBinding, ImportedBinding(nextBinding))
                      THEN ImportScan(km, importedLayers, layerIndex, keyPosition + 1)
                    ELSE [found |-> TRUE,
                          layerIndex |-> layerIndex,
                          keyPosition |-> keyPosition,
                          layerId |-> km.layers[layerIndex + 1].id,
                          binding |-> ImportedBinding(nextBinding)]

\* The checks importKeymap makes before it reads the file: the alert it
\* raises, or "none".
SessionRefusal ==
  CASE ~conn -> "Not connected"
    [] lockState # Unlocked -> "Unlock the device to import a keymap"
    [] keymap = Unloaded -> "Keymap not loaded yet"
    [] OTHER -> "none"

\* The checks importKeymap makes on the file before its loops: the alert it
\* raises, or "none".
ImportRefusal(doc) ==
  CASE ~doc.json -> "Invalid JSON file"
    [] ~doc.isArray -> "Invalid keymap format (missing layers)"
    [] Len(doc.layers) = 0 -> "Invalid keymap format (missing layers)"
    [] OTHER -> "none"

\* importKeymap runs its loops from (layerIndex, keyPosition) to the next
\* call_rpc, which it issues, or to their end. q holds the calls that are
\* outstanding and km is the replica at that moment.
ImportContinue(run, q, km, layerIndex, keyPosition) ==
  LET c == ImportScan(run.keymap, run.doc.layers, layerIndex, keyPosition)
  IN IF c.found
       THEN /\ imp' = [run EXCEPT !.pc = "awaiting",
                                  !.layerIndex = c.layerIndex,
                                  !.keyPosition = c.keyPosition,
                                  !.binding = c.binding,
                                  !.calls = Append(run.calls,
                                                   <<c.layerIndex, c.keyPosition>>)]
            /\ rpc' = Append(q, [req |-> [call |-> "setLayerBinding",
                                          layerId |-> c.layerId,
                                          keyPosition |-> c.keyPosition,
                                          binding |-> c.binding],
                                 owner |-> "import", pre |-> km,
                                 session |-> changes])
       ELSE /\ imp' = [run EXCEPT !.pc = "done"]
            /\ rpc' = q

\* An importKeymap that takes its start for a new edit of the stack.
importKeymapClearsRedo(doc) ==
  /\ imp = NoImport
  /\ LET alert == IF SessionRefusal # "none" THEN SessionRefusal
                  ELSE ImportRefusal(doc)
         run == [pc |-> "idle",
                 doc |-> IF SessionRefusal # "none" THEN Unread ELSE doc,
                 keymap |-> keymap,
                 device |-> device, layerIndex |-> 0, keyPosition |-> 0,
                 binding |-> BindingA, calls |-> <<>>, alert |-> alert]
     IN IF alert # "none"
          THEN /\ imp' = [run EXCEPT !.pc = "refused"]
               /\ rpc' = rpc
          ELSE ImportContinue(run, rpc, keymap, 0, 0)
  /\ redoStack' = <<>>
  /\ UNCHANGED <<device, keymap, selectedLayerIndex,
                 selectedPhysicalLayoutIndex, undoStack, performing,
                 last, track, rejections, conn, lockState,
                 behaviors, layouts, fetches, changes, panel>>

\* KeyAssignPanel onImportKeymap(file): importKeymap up to its first await
\* of call_rpc.
importKeymap(doc) ==
  /\ imp = NoImport
  /\ LET alert == IF SessionRefusal # "none" THEN SessionRefusal
                  ELSE ImportRefusal(doc)
         run == [pc |-> "idle",
                 doc |-> IF SessionRefusal # "none" THEN Unread ELSE doc,
                 keymap |-> keymap,
                 device |-> device, layerIndex |-> 0, keyPosition |-> 0,
                 binding |-> BindingA, calls |-> <<>>, alert |-> alert]
     IN IF alert # "none"
          THEN /\ imp' = [run EXCEPT !.pc = "refused"]
               /\ rpc' = rpc
          ELSE ImportContinue(run, rpc, keymap, 0, 0)
  /\ UNCHANGED <<device, keymap, selectedLayerIndex,
                 selectedPhysicalLayoutIndex, undoStack, redoStack, performing,
                 last, track, rejections, conn, lockState,
                 behaviors, layouts, fetches, changes, panel>>

\* An importKeymap that updates the replica before it looks at the response.
importRespondUpdatesFirst(ok) ==
  /\ imp.pc = "awaiting"
  /\ rpc # <<>>
  /\ Head(rpc).owner = "import"
  /\ ok => DevValid(device, Head(rpc).req)
  /\ device' = IF ok THEN DevApply(device, Head(rpc).req) ELSE device
  /\ keymap' = SetBindingAt(keymap, imp.layerIndex, imp.keyPosition, imp.binding)
  /\ IF ok
       THEN ImportContinue(imp, Tail(rpc), keymap', imp.layerIndex,
                           imp.keyPosition + 1)
       ELSE /\ imp' = [imp EXCEPT
                         !.pc = "failed",
                         !.alert = "Failed to import keymap (setLayerBinding error)"]
            /\ rpc' = Tail(rpc)
  /\ UNCHANGED <<selectedLayerIndex, selectedPhysicalLayoutIndex, undoStack,
                 redoStack, performing, last, track, rejections, conn, lockState,
                 behaviors, layouts, fetches, changes, panel>>

\* The device answers the call of importKeymap, which goes on after its
\* await: it gives up on an error, else updates the replica and runs on.
importRespond(ok) ==
  /\ imp.pc = "awaiting"
  /\ rpc # <<>>
  /\ Head(rpc).owner = "import"
  /\ ok => DevValid(device, Head(rpc).req)
  /\ device' = IF ok THEN DevApply(device, Head(rpc).req) ELSE device
  /\ IF ok
       THEN /\ keymap' = SetBindingAt(keymap, imp.layerIndex, imp.keyPosition,
                                      imp.binding)
            /\ ImportContinue(imp, Tail(rpc), keymap', imp.layerIndex,
                              imp.keyPosition + 1)
       ELSE /\ keymap' = keymap
            /\ imp' = [imp EXCEPT
                         !.pc = "failed",
                         !.alert = "Failed to import keymap (setLayerBinding error)"]
            /\ rpc' = Tail(rpc)
  /\ UNCHANGED <<selectedLayerIndex, selectedPhysicalLayoutIndex, undoStack,
                 redoStack, performing, last, track, rejections, conn, lockState,
                 behaviors, layouts, fetches, changes, panel>>

\* The keymaps an import is run on: one layer of one key, and two layers of
\* two keys.
ImportLayers ==
  {<<[id |-> 0, name |-> DefaultName, bindings |-> <<BindingA>>]>>,
   <<[id |-> 0, name |-> DefaultName, bindings |-> <<BindingB, BindingB>>],
     [id |-> 1, name |-> DefaultName, bindings |-> <<BindingB, BindingA>>]>>}

ImportDevice(layers) ==
  [InitDevice EXCEPT !.layers = layers,
                     !.availableLayers = NumSlots - Len(layers)]

\* The session an import is asked for in: connected or not, unlocked or
\* locked, the keymap loaded or not yet.
InitImport ==
  /\ \E layers \in ImportLayers : device = ImportDevice(layers)
  /\ conn \in BOOLEAN
  /\ lockState \in {Unlocked, Locked}
  /\ keymap \in {DevKeymap(device), Unloaded}
  /\ (~conn \/ lockState # Unlocked) => keymap = Unloaded
  /\ selectedLayerIndex = 0
  /\ selectedPhysicalLayoutIndex = 0
  /\ undoStack = <<>>
  /\ redoStack = <<>>
  /\ performing = Idle
  /\ rpc = <<>>
  /\ last = [ev |-> "init"]
  /\ track = Untracked
  /\ rejections = 0
  /\ imp = NoImport
  /\ behaviors = IF conn /\ lockState = Unlocked
                   THEN BehaviorMapOf(Len(DeviceBehaviors)) ELSE EmptyMap
  /\ layouts = IF conn /\ lockState = Unlocked THEN DeviceLayouts ELSE Unloaded
  /\ fetches = {}
  /\ changes = 0
  /\ panel = Unrendered

NextImport ==
  \/ imp = NoImport /\ \E doc \in Documents : importKeymap(doc)
  \/ \E ok \in BOOLEAN : importRespond(ok)

SpecImport == InitImport /\ [][NextImport]_vars

\* ------------------------------------------------- statements on import
\* The positions (layer index, key position) of a keymap.
PositionsOf(km) ==
  UNION {{<<l - 1, k - 1>> : k \in 1 .. Len(km.layers[l].bindings)} :
           l \in 1 .. Len(km.layers)}

BindingAt(km, p) == km.layers[p[1] + 1].bindings[p[2] + 1]

\* p comes before q in ascending layer, then key order.
Before(p, q) == p[1] < q[1] \/ (p[1] = q[1] /\ p[2] < q[2])

\* The document supplies, for every layer, a list of bindings
\* {behaviorId, param1, param2}.
WellFormed(doc) ==
  /\ doc # Unread
  /\ doc.json
  /\ doc.isArray
  /\ Len(doc.layers) > 0
  /\ \A l \in 1 .. Len(doc.layers) :
       /\ "bindings" \in DOMAIN doc.layers[l]
       /\ \A k \in 1 .. Len(doc.layers[l].bindings) :
            doc.layers[l].bindings[k] \in Bindings

\* The positions that the keymap km and the well-formed document share.
SharedPositions(km, doc) ==
  {p \in PositionsOf(km) :
     /\ p[1] < Len(doc.layers)
     /\ p[2] < Len(doc.layers[p[1] + 1].bindings)}

\* C11: when the device rejects a set-binding of an import, every binding
\* applied before it is updated in device and replica, every other position
\* keeps the binding it had before the import in both, no call is
\* outstanding (and the import has ended), and the failure is reported.
C11_ImportStopsAtRejection ==
  imp.pc = "failed" =>
    LET applied == {imp.calls[j] : j \in 1 .. (Len(imp.calls) - 1)}
    IN /\ rpc = <<>>
       /\ imp.alert = "Failed to import keymap (setLayerBinding error)"
       /\ \A p \in PositionsOf(imp.keymap) :
            LET want == IF p \in applied
                          THEN ImportedBinding(BindingAt([layers |-> imp.doc.layers], p))
                          ELSE BindingAt(imp.keymap, p)
            IN /\ BindingAt(keymap, p) = want
               /\ BindingAt(device, p) = want

\* A rejection after a binding was applied and before a position that the
\* document would change.
C11_Witness ==
  /\ imp.pc = "failed"
  /\ Len(imp.calls) >= 2
  /\ WellFormed(imp.doc)
  /\ \E p \in SharedPositions(imp.keymap, imp.doc) :
       /\ Before(imp.calls[Len(imp.calls)], p)
       /\ BindingAt([layers |-> imp.doc.layers], p) # BindingAt(imp.keymap, p)

\* C12: an import of a well-formed document calls set-binding only for
\* positions that keymap and document share and where the imported binding
\* differs from the current one, in ascending layer then key order and none
\* twice; an import that ends without a rejection has called it for every
\* such position.
C12_ImportCallsDiffering ==
  (imp.pc # "idle" /\ WellFormed(imp.doc) /\ imp.alert = "none") =>
    LET differing ==
          {p \in SharedPositions(imp.keymap, imp.doc) :
             BindingAt([layers |-> imp.doc.layers], p) # BindingAt(imp.keymap, p)}
    IN /\ \A j \in 1 .. Len(imp.calls) : imp.calls[j] \in differing
       /\ \A j \in 1 .. (Len(imp.calls) - 1) :
            Before(imp.calls[j], imp.calls[j + 1])
       /\ imp.pc = "done" => {imp.calls[j] : j \in 1 .. Len(imp.calls)} = differing

\* An import that ran to its end over a document with fewer layers than the
\* keymap, with more keys in a layer than the keymap, and with a binding
\* that is the current one.
C12_Witness ==
  /\ imp.pc = "done"
  /\ WellFormed(imp.doc)
  /\ Len(imp.calls) >= 2
  /\ Len(imp.doc.layers[1].bindings) # Len(imp.keymap.layers[1].bindings)
  /\ \E p \in SharedPositions(imp.keymap, imp.doc) :
       BindingAt([layers |-> imp.doc.layers], p) = BindingAt(imp.keymap, p)

\* C13: a document that does not supply a list of bindings for every layer
\* is reported and causes no set-binding call and no change of the replica.
C13_MalformedImportRefused ==
  (imp.pc # "idle" /\ imp.doc # Unread /\ ~WellFormed(imp.doc)) =>
    /\ imp.calls = <<>>
    /\ imp.alert # "none"
    /\ keymap = imp.keymap

\* ---------------------------------------------------------- the session
\* The connection and the lock state change under the component: its
\* effects on [connection, lockState] are cleaned up and run again, and the
\* responses to what was asked before the change arrive after it.
MaxSessionChanges == 1

FetchKinds == {"behaviors", "layouts", "keymap"}

\* startRequest() of the three effects, with ignore = false. session is the
\* number of changes before the fetch started (history).
StartedFetches(session) ==
  {[kind |-> k, session |-> session, ignore |-> FALSE, step |-> 0] :
     k \in FetchKinds}

\* The cleanup of the effects: ignore = true in the fetches that are running.
\* How far such a fetch has come no longer matters.
Cleanup(fs) == {[f EXCEPT !.ignore = TRUE, !.step = 0] : f \in fs}

\* The connection or the lock state becomes (c, l). The effects of
\* useBehaviors, useLayouts and useConnectedDeviceData empty their state and,
\* with a connection that is unlocked, start their requests; the effect on
\* [conn] selects the first layer.
SessionChanged(c, l, newConn) ==
  /\ changes < MaxSessionChanges
  /\ changes' = changes + 1
  /\ conn' = c
  /\ lockState' = l
  /\ behaviors' = EmptyMap
  /\ layouts' = Unloaded
  /\ keymap' = Unloaded
  /\ fetches' = Cleanup(fetches) \cup
                  (IF c /\ l = Unlocked THEN StartedFetches(changes + 1) ELSE {})
  /\ selectedLayerIndex' = IF newConn THEN 0 ELSE selectedLayerIndex
  /\ last' = [ev |-> "session"]
  /\ UNCHANGED <<device, selectedPhysicalLayoutIndex, undoStack, redoStack,
                 performing, rpc, track, rejections, imp, panel>>

\* A connection is made (the first one or another one) to the device, which
\* is locked or not.
Connect(l) == SessionChanged(TRUE, l, TRUE)

\* The connection is lost or closed.
Disconnect == conn /\ SessionChanged(FALSE, lockState, TRUE)

\* The device reports its other lock state.
LockStateChanged ==
  /\ conn
  /\ SessionChanged(conn, IF lockState = Unlocked THEN Locked ELSE Unlocked,
                    FALSE)

\* A startRequest that never looks at ignore.
useBehaviorsResponseUnchecked(f) ==
  /\ IF f.step < Len(DeviceBehaviors)
       THEN /\ fetches' = (fetches \ {f}) \cup {[f EXCEPT !.step = f.step + 1]}
            /\ behaviors' = behaviors
       ELSE /\ fetches' = fetches \ {f}
            /\ behaviors' = BehaviorMapOf(f.step)
  /\ UNCHANGED <<layouts, keymap, selectedLayerIndex,
                 selectedPhysicalLayoutIndex, rpc>>

\* useBehaviors: startRequest after an await of call_rpc. step is the number
\* of behaviors whose details were asked for.
useBehaviorsResponse(f) ==
  /\ IF f.ignore
       THEN /\ fetches' = fetches \ {f}
            /\ behaviors' = behaviors
       ELSE IF f.step < Len(DeviceBehaviors)
         THEN /\ fetches' = (fetches \ {f}) \cup {[f EXCEPT !.step = f.step + 1]}
              /\ behaviors' = behaviors
         ELSE /\ fetches' = fetches \ {f}
              /\ behaviors' = BehaviorMapOf(f.step)
  /\ UNCHANGED <<layouts, keymap, selectedLayerIndex,
                 selectedPhysicalLayoutIndex, rpc>>

\* useLayouts: startRequest after its await. The layout the device has
\* active is selected, and the effect on [selectedPhysicalLayoutIndex] sends
\* it back when the selection changed.
useLayoutsResponse(f) ==
  /\ IF f.ignore
       THEN UNCHANGED <<layouts, selectedPhysicalLayoutIndex, rpc>>
       ELSE /\ layouts' = DeviceLayouts
            /\ selectedPhysicalLayoutIndex' = device.activeLayout
            /\ IF device.activeLayout # selectedPhysicalLayoutIndex /\ conn
                 THEN /\ Len(rpc) < MaxOutstanding
                      /\ rpc' = Append(rpc,
                                  [req |-> [call |-> "setActivePhysicalLayout",
                                            index |-> device.activeLayout],
                                   owner |-> "effect", pre |-> keymap,
                                   session |-> changes])
                 ELSE rpc' = rpc
  /\ fetches' = fetches \ {f}
  /\ UNCHANGED <<behaviors, keymap, selectedLayerIndex>>

\* useConnectedDeviceData<Keymap>: the keymap of the device becomes the
\* replica unless the fetch is to be ignored.
useConnectedDeviceDataResponse(f) ==
  /\ keymap' = IF f.ignore THEN keymap ELSE DevKeymap(device)
  /\ selectedLayerIndex' = ClampEffect(keymap', selectedLayerIndex)
  /\ fetches' = fetches \ {f}
  /\ UNCHANGED <<behaviors, layouts, selectedPhysicalLayoutIndex, rpc>>

\* The response to a request of a fetch arrives.
FetchResponse(f) ==
  /\ f \in fetches
  /\ CASE f.kind = "behaviors" -> useBehaviorsResponse(f)
       [] f.kind = "layouts" -> useLayoutsResponse(f)
       [] f.kind = "keymap" -> useConnectedDeviceDataResponse(f)
  /\ last' = [ev |-> "fetch", kind |-> f.kind, ignore |-> f.ignore]
  /\ UNCHANGED <<device, undoStack, redoStack, performing, track, rejections,
                 conn, lockState, imp, changes, panel>>

Answered(c) == "resp" \in DOMAIN c

\* The device takes the oldest call it has not answered yet and sends its
\* response.
Process(ok) ==
  \E i \in 1 .. Len(rpc) :
    /\ ~Answered(rpc[i])
    /\ \A j \in 1 .. (i - 1) : Answered(rpc[j])
    /\ LET c == rpc[i]
           accepts == DevAccepts(c.req)
           d2 == IF ok THEN DevApply(device, c.req) ELSE device
       IN /\ ok => accepts
          /\ (~ok /\ accepts) => rejections < MaxRejections
          /\ rejections' = IF ~ok /\ accepts THEN rejections + 1 ELSE rejections
          /\ device' = d2
          /\ rpc' = [rpc EXCEPT ![i] =
                       [req |-> c.req, owner |-> c.owner, pre |-> c.pre,
                        session |-> c.session,
                        resp |-> DevResponse(device, d2, c.req, ok), ok |-> ok]]
    /\ UNCHANGED <<keymap, selectedLayerIndex, selectedPhysicalLayoutIndex,
                   undoStack, redoStack, performing, last, track>>
    /\ UNCHANGED aside

\* The response to the oldest call arrives and the continuation of its
\* call_rpc runs.
Deliver ==
  /\ rpc # <<>>
  /\ Answered(Head(rpc))
  /\ rpc' = Tail(rpc)
  /\ Continuation(Head(rpc), Head(rpc).resp, Head(rpc).ok)
  /\ UNCHANGED <<device, rejections>>
  /\ UNCHANGED aside

\* A device whose layer slots are all in use.
FullDevice == [InitDevice EXCEPT !.availableLayers = 0]

\* The component is mounted with a connection that is unlocked: its effects
\* have started their requests and nothing is loaded yet. The device rejects
\* only the calls it cannot accept.
InitSession ==
  /\ \E active \in Layouts : device = [FullDevice EXCEPT !.activeLayout = active]
  /\ keymap = Unloaded
  /\ selectedLayerIndex = 0
  /\ selectedPhysicalLayoutIndex = 0
  /\ undoStack = <<>>
  /\ redoStack = <<>>
  /\ performing = Idle
  /\ rpc = <<>>
  /\ last = [ev |-> "init"]
  /\ track = Untracked
  /\ rejections = MaxRejections
  /\ conn = TRUE
  /\ lockState = Unlocked
  /\ imp = NoImport
  /\ behaviors = EmptyMap
  /\ layouts = Unloaded
  /\ fetches = StartedFetches(0)
  /\ changes = 0
  /\ panel = Unrendered

NextSession ==
  \/ \E k \in KeyPositions, b \in Bindings : doUpdateBinding(k, b)
  \/ \E start, end \in 0 .. (NumSlots - 1) : moveLayer(start, end)
  \/ \E ok \in BOOLEAN : Process(ok)
  \/ Deliver
  \/ \E l \in {Unlocked, Locked} : Connect(l)
  \/ Disconnect
  \/ LockStateChanged
  \/ \E f \in fetches : FetchResponse(f)

SpecSession == InitSession /\ [][NextSession]_vars

\* The session of the fetches alone: no edit is made.
NextFetch ==
  \/ \E ok \in BOOLEAN : Process(ok)
  \/ Deliver
  \/ \E l \in {Unlocked, Locked} : Connect(l)
  \/ Disconnect
  \/ LockStateChanged
  \/ \E f \in fetches : FetchResponse(f)

SpecFetch == InitSession /\ [][NextFetch]_vars

\* The edits of a session that ends: everything is loaded, edits are made,
\* and the connection is lost or the device locks while the command stack
\* holds them.
InitEnding ==
  /\ device = InitDevice
  /\ keymap = DevKeymap(InitDevice)
  /\ selectedLayerIndex = 0
  /\ selectedPhysicalLayoutIndex = 0
  /\ undoStack = <<>>
  /\ redoStack = <<>>
  /\ performing = Idle
  /\ rpc = <<>>
  /\ last = [ev |-> "init"]
  /\ track = Untracked
  /\ rejections = MaxRejections
  /\ conn = TRUE
  /\ lockState = Unlocked
  /\ imp = NoImport
  /\ behaviors = BehaviorMapOf(Len(DeviceBehaviors))
  /\ layouts = DeviceLayouts
  /\ fetches = {}
  /\ changes = 0
  /\ panel = Unrendered

NextEnding ==
  \/ \E i \in 0 .. (NumSlots - 1) : SelectLayer(i)
  \/ \E k \in KeyPositions, b \in Bindings : doUpdateBinding(k, b)
  \/ \E start, end \in 0 .. (NumSlots - 1) : moveLayer(start, end)
  \/ addLayer
  \/ removeLayer
  \/ \E id \in LayerIds, name \in Names : changeLayerName(id, name)
  \/ \E i \in Layouts : doSelectPhysicalLayout(i)
  \/ Undo
  \/ Redo
  \/ \E ok \in BOOLEAN : Respond(ok)
  \/ Disconnect
  \/ lockState = Unlocked /\ LockStateChanged

SpecEnding == InitEnding /\ [][NextEnding]_vars

\* ------------------------------------------ statements on the session
\* The connection is absent or the device is locked.
NoSession == ~conn \/ lockState # Unlocked

\* The step is neither a change of the session nor the handling of a
\* response: it is an edit, an undo or a redo that was asked for.
AskedFor ==
  /\ conn' = conn
  /\ lockState' = lockState
  /\ ~HandlesResponse

\* C14: with no connection, or with a locked device, every edit, undo and redo
\* that is asked for is refused before any remote call: no call is issued,
\* and the replica, the undo list and the redo list stay as they are.
C14_RefusedWithoutSession ==
  [][(NoSession /\ AskedFor) =>
       /\ rpc' = rpc
       /\ keymap' = keymap
       /\ undoStack' = undoStack
       /\ redoStack' = redoStack]_vars

\* The step handles the response to a call that was issued before the
\* latest change of the session.
LateCallResponse == HandlesResponse /\ Head(rpc).session # changes

\* The step handles the response to a request of a fetch that was started
\* before the latest change of the session.
LateFetchResponse(kinds) ==
  \E f \in fetches : f.kind \in kinds /\ f.session # changes /\ f \notin fetches'

\* C20: a response that arrives after the session ended or changed is
\* ignored: handling it changes neither the behavior map, nor the list of
\* physical layouts, nor the keymap replica.
C20_LateResponseIgnored ==
  [][(LateCallResponse \/ LateFetchResponse(FetchKinds)) =>
       /\ behaviors' = behaviors
       /\ layouts' = layouts
       /\ keymap' = keymap]_vars

\* Without a connection that is unlocked the behavior map is empty, and a
\* behavior fetch that is not to be ignored runs only with such a connection.
BehaviorsFollowSession ==
  /\ NoSession => behaviors = EmptyMap
  /\ \A f \in fetches : (f.kind = "behaviors" /\ ~f.ignore) => ~NoSession

\* C21: the behavior map is empty whenever the connection is absent or the
\* device is not unlocked, a behavior fetch is started only with an unlocked
\* connection, and the response to a fetch that was running when the
\* connection or the lock state changed leaves the map as it is.
C21_BehaviorsOnlyWhenUnlocked ==
  /\ []BehaviorsFollowSession
  /\ [][LateFetchResponse({"behaviors"}) => behaviors' = behaviors]_vars

\* The response to a behavior fetch of the session before has just been
\* handled in a new session that is unlocked, and the map is still empty.
C21_Witness ==
  /\ last = [ev |-> "fetch", kind |-> "behaviors", ignore |-> TRUE]
  /\ changes > 0
  /\ ~NoSession
  /\ behaviors = EmptyMap

\* ----------------------------------------- behaviors and their metadata
\* A parameter description (BehaviorParameterValueDescription) is one of a
\* HID usage, a layer id, a named constant, a range, or nil. A metadata set
\* (BehaviorBindingParametersSet) lists the descriptions of param1 and of
\* param2; a behavior has an id, a display name and a list of sets.
HidUsage(keyboardMax, consumerMax) ==
  [kind |-> "hidUsage", keyboardMax |-> keyboardMax, consumerMax |-> consumerMax]

LayerId == [kind |-> "layerId"]

Constant(value, name) == [kind |-> "constant", constant |-> value, name |-> name]

Range(min, max) == [kind |-> "range", min |-> min, max |-> max]

ParametersSet(param1, param2) == [param1 |-> param1, param2 |-> param2]

Behavior(id, displayName, metadata) ==
  [id |-> id, displayName |-> displayName, metadata |-> metadata]

\* seq.some((p) => p.<kind>)
WithKind(seq, kind) == \E i \in 1 .. Len(seq) : seq[i].kind = kind

\* [...(set.param1 || []), ...(set.param2 || [])]
BothParams(set) == set.param1 \o set.param2

\* (param === "param1" ? set.param1 : set.param2) || []
ParamOf(set, param) == IF param = "param1" THEN set.param1 ELSE set.param2

\* (behavior.metadata || []).flatMap((s) => s.param1 || []), or param2.
RECURSIVE FlatParams(_, _)
FlatParams(metadata, param) ==
  IF metadata = <<>> THEN <<>>
  ELSE ParamOf(Head(metadata), param) \o FlatParams(Tail(metadata), param)

\* No capabilities: getHidUsageCaps returns null.
NoCaps == [none |-> TRUE]

\* getHidUsageCaps: the bounds of the first HID usage description of the
\* behavior, set by set, param1 before param2.
RECURSIVE FirstHidUsage(_)
FirstHidUsage(metadata) ==
  IF metadata = <<>> THEN NoCaps
  ELSE LET params == BothParams(Head(metadata))
           hits == SelectSeq(params, LAMBDA d : d.kind = "hidUsage")
       IN IF hits # <<>>
            THEN [keyboardMax |-> hits[1].keyboardMax,
                  consumerMax |-> hits[1].consumerMax]
            ELSE FirstHidUsage(Tail(metadata))

getHidUsageCapsOfParam1(behavior) ==
  LET hits == SelectSeq(FlatParams(behavior.metadata, "param1"),
                        LAMBDA d : d.kind = "hidUsage")
  IN IF hits # <<>>
       THEN [keyboardMax |-> hits[1].keyboardMax,
             consumerMax |-> hits[1].consumerMax]
       ELSE NoCaps

getHidUsageCaps(behavior) == FirstHidUsage(behavior.metadata)

hasLayerIdParam(behavior) ==
  \E i \in 1 .. Len(behavior.metadata) :
    WithKind(BothParams(behavior.metadata[i]), "layerId")

hasHidUsageParam(behavior) ==
  \E i \in 1 .. Len(behavior.metadata) :
    WithKind(BothParams(behavior.metadata[i]), "hidUsage")

hasConstantParam(behavior) ==
  \E i \in 1 .. Len(behavior.metadata) :
    WithKind(BothParams(behavior.metadata[i]), "constant")

\* The names of behaviors and of constants in the order of localeCompare.
NameOrder ==
  <<"BLE", "Bluetooth", "Clear All Profiles", "Clear Selected Profile",
    "Disconnect Profile", "Hold-Tap", "Key Press", "Layer-Tap", "Left Control",
    "Left Shift", "Mod-Tap", "Momentary Layer", "Next Profile",
    "Output Selection", "Previous Profile", "Select Profile",
    "select_profile", "Tap-Layer", "Toggle", "Transparent", "USB">>

NameRank(name) == CHOOSE i \in 1 .. Len(NameOrder) : NameOrder[i] = name

\* Object.values(behaviors) of the ones that pass, sorted by display name:
\* the values come in the order of their ids, and the sort is stable.
RECURSIVE SortedByName(_)
SortedByName(bs) ==
  IF bs = {} THEN <<>>
  ELSE LET first == CHOOSE b \in bs :
                      \A c \in bs :
                        \/ NameRank(b.displayName) < NameRank(c.displayName)
                        \/ /\ NameRank(b.displayName) = NameRank(c.displayName)
                           /\ b.id <= c.id
       IN <<first>> \o SortedByName(bs \ {first})

ValuesOf(map) == {map[id] : id \in DOMAIN map}

\* getQuickHidUsageBehaviors(behaviors, category): the behaviors with a HID
\* usage, those of them the category suits if there is any.
getQuickHidUsageBehaviors(map, category) ==
  LET all == {b \in ValuesOf(map) : getHidUsageCaps(b) # NoCaps}
      filtered == {b \in all :
                     IF category = "media"
                       THEN getHidUsageCaps(b).consumerMax > 0
                       ELSE getHidUsageCaps(b).keyboardMax > 0}
  IN IF filtered # {} THEN filtered ELSE all

getQuickLayerTapBehaviors(map) ==
  {b \in ValuesOf(map) : hasLayerIdParam(b) /\ hasHidUsageParam(b)}

\* /bluetooth|output/i.test(displayName), /bluetooth/i and /output/i.
NamesBluetooth(name) == name \in {"Bluetooth"}

NamesOutput(name) == name \in {"Output Selection"}

getQuickBluetoothBehaviors(map) ==
  LET base == {b \in ValuesOf(map) :
                 hasConstantParam(b) /\ ~hasHidUsageParam(b) /\ ~hasLayerIdParam(b)}
      byName == {b \in base :
                   NamesBluetooth(b.displayName) \/ NamesOutput(b.displayName)}
  IN IF byName # {} THEN byName ELSE base

getQuickModTapBehaviors(map) ==
  {b \in ValuesOf(map) :
     hasHidUsageParam(b) /\ hasConstantParam(b) /\ ~hasLayerIdParam(b)}

\* No role mapping: the infer functions return null.
NoOrder == [none |-> TRUE]

\* inferLayerTapParamOrder: the first set with a layer id on one parameter
\* and a HID usage on the other.
RECURSIVE LayerTapOrderOf(_)
LayerTapOrderOf(metadata) ==
  IF metadata = <<>> THEN NoOrder
  ELSE LET set == Head(metadata)
           p1HasLayer == WithKind(set.param1, "layerId")
           p2HasLayer == WithKind(set.param2, "layerId")
           p1HasUsage == WithKind(set.param1, "hidUsage")
           p2HasUsage == WithKind(set.param2, "hidUsage")
       IN IF p1HasLayer /\ p2HasUsage
            THEN [layerParam |-> "param1", usageParam |-> "param2"]
          ELSE IF p2HasLayer /\ p1HasUsage
            THEN [layerParam |-> "param2", usageParam |-> "param1"]
          ELSE LayerTapOrderOf(Tail(metadata))

inferLayerTapParamOrder(behavior) == LayerTapOrderOf(behavior.metadata)

\* inferModTapParamOrder: the first set with a constant on one parameter and
\* a HID usage on the other.
RECURSIVE ModTapOrderOf(_)
ModTapOrderOf(metadata) ==
  IF metadata = <<>> THEN NoOrder
  ELSE LET set == Head(metadata)
           p1HasConst == WithKind(set.param1, "constant")
           p2HasConst == WithKind(set.param2, "constant")
           p1HasUsage == WithKind(set.param1, "hidUsage")
           p2HasUsage == WithKind(set.param2, "hidUsage")
       IN IF p1HasConst /\ p2HasUsage
            THEN [modParam |-> "param1", usageParam |-> "param2"]
          ELSE IF p2HasConst /\ p1HasUsage
            THEN [modParam |-> "param2", usageParam |-> "param1"]
          ELSE ModTapOrderOf(Tail(metadata))

inferModTapParamOrder(behavior) == ModTapOrderOf(behavior.metadata)

\* ------------------------------------------------ bluetooth / output roles
NoParam == "none"

OtherParam(param) == IF param = "param1" THEN "param2" ELSE "param1"

\* inferSingleConstantParam: the parameter holding the constants when the
\* other parameter holds nothing at all; null otherwise.
inferSingleConstantParam(behavior) ==
  LET p1 == FlatParams(behavior.metadata, "param1")
      p2 == FlatParams(behavior.metadata, "param2")
      p1HasConst == WithKind(p1, "constant")
      p2HasConst == WithKind(p2, "constant")
      Others == {"hidUsage", "layerId", "range"}
      p1HasOther == (\E i \in 1 .. Len(p1) : p1[i].kind \in Others)
                      \/ (Len(p1) > 0 /\ ~p1HasConst)
      p2HasOther == (\E i \in 1 .. Len(p2) : p2[i].kind \in Others)
                      \/ (Len(p2) > 0 /\ ~p2HasConst)
  IN IF p1HasConst /\ ~p2HasConst /\ Len(p2) = 0 /\ ~p1HasOther
       THEN [constParam |-> "param1"]
     ELSE IF p2HasConst /\ ~p1HasConst /\ Len(p1) = 0 /\ ~p2HasOther
       THEN [constParam |-> "param2"]
     ELSE NoOrder

Constants(seq) == SelectSeq(seq, LAMBDA d : d.kind = "constant")

\* The first description of each constant value, in the order met.
RECURSIVE FirstOfEach(_, _)
FirstOfEach(seq, seen) ==
  IF seq = <<>> THEN <<>>
  ELSE IF Head(seq).constant \in seen THEN FirstOfEach(Tail(seq), seen)
  ELSE <<Head(seq)>> \o FirstOfEach(Tail(seq), seen \cup {Head(seq).constant})

\* The stable sort by name of a list of constant descriptions.
RECURSIVE SortChoices(_)
SortChoices(seq) ==
  IF seq = <<>> THEN <<>>
  ELSE LET i == CHOOSE k \in 1 .. Len(seq) :
                  \A m \in 1 .. Len(seq) :
                    \/ NameRank(seq[k].name) < NameRank(seq[m].name)
                    \/ NameRank(seq[k].name) = NameRank(seq[m].name) /\ k <= m
       IN <<seq[i]>> \o SortChoices(SubSeq(seq, 1, i - 1) \o SubSeq(seq, i + 1, Len(seq)))

collectConstantChoicesRepeated(behavior, param) ==
  SortChoices(Constants(FlatParams(behavior.metadata, param)))

collectConstantChoices(behavior, param) ==
  SortChoices(FirstOfEach(Constants(FlatParams(behavior.metadata, param)), {}))

BT_ACTION_LABELS ==
  <<"Next Profile", "Previous Profile", "Clear All Profiles",
    "Clear Selected Profile", "Select Profile", "Disconnect Profile">>

\* normalizeName: lower case, without spaces, underscores and hyphens.
normalizeName(name) ==
  CASE name = "Next Profile" -> "nextprofile"
    [] name = "Previous Profile" -> "previousprofile"
    [] name = "Clear All Profiles" -> "clearallprofiles"
    [] name = "Clear Selected Profile" -> "clearselectedprofile"
    [] name \in {"Select Profile", "select_profile"} -> "selectprofile"
    [] name = "Disconnect Profile" -> "disconnectprofile"
    [] name = "USB" -> "usb"
    [] name = "BLE" -> "ble"
    [] name = "Toggle" -> "toggle"
    [] name = "Left Shift" -> "leftshift"
    [] name = "Left Control" -> "leftcontrol"

Expected == {normalizeName(BT_ACTION_LABELS[i]) : i \in 1 .. Len(BT_ACTION_LABELS)}

Score(seq) ==
  Len(SelectSeq(Constants(seq), LAMBDA c : normalizeName(c.name) \in Expected))

\* inferBluetoothParamOrder: in the first set naming a known action, the
\* parameter naming more of them is the action's and the other one, if it
\* holds anything, the profile's; without such a set, the single constant
\* parameter is the action's and there is no profile parameter.
RECURSIVE BluetoothOrderOf(_)
BluetoothOrderOf(metadata) ==
  IF metadata = <<>> THEN NoOrder
  ELSE LET set == Head(metadata)
           p1Score == Score(set.param1)
           p2Score == Score(set.param2)
           actionParam == IF p1Score >= p2Score THEN "param1" ELSE "param2"
           otherParam == OtherParam(actionParam)
           otherArr == ParamOf(set, otherParam)
       IN IF p1Score = 0 /\ p2Score = 0 THEN BluetoothOrderOf(Tail(metadata))
          ELSE [actionParam |-> actionParam,
                profileParam |-> IF Len(otherArr) > 0 THEN otherParam ELSE NoParam]

inferBluetoothParamOrder(behavior) ==
  LET found == BluetoothOrderOf(behavior.metadata)
      simple == inferSingleConstantParam(behavior)
  IN IF found # NoOrder THEN found
     ELSE IF simple # NoOrder
       THEN [actionParam |-> simple.constParam, profileParam |-> NoParam]
     ELSE NoOrder

NoSet == [none |-> TRUE]

RECURSIVE SetForAction(_, _, _)
SetForAction(metadata, actionParam, actionValue) ==
  IF metadata = <<>> THEN NoSet
  ELSE LET arr == ParamOf(Head(metadata), actionParam)
       IN IF \E i \in 1 .. Len(arr) :
               arr[i].kind = "constant" /\ arr[i].constant = actionValue
            THEN Head(metadata)
            ELSE SetForAction(Tail(metadata), actionParam, actionValue)

findMetadataSetForAction(behavior, actionParam, actionValue) ==
  SetForAction(behavior.metadata, actionParam, actionValue)

getProfileParamDescriptors(set, profileParam) ==
  IF set = NoSet \/ profileParam = NoParam THEN <<>>
  ELSE ParamOf(set, profileParam)

defaultProfileValue(descriptors) ==
  IF Len(descriptors) = 0 THEN 0
  ELSE IF \A i \in 1 .. Len(descriptors) : descriptors[i].kind = "constant"
    THEN descriptors[1].constant
  ELSE IF Len(descriptors) = 1 /\ descriptors[1].kind = "range"
    THEN descriptors[1].min
  ELSE 0

\* ------------------------------------------------------ behavior maps
\* The behavior maps the panel is given. The Bluetooth behavior of the first
\* names the six actions on param1 and nothing on param2; that of the second
\* lists the actions without a profile in one set and those with a profile,
\* with a range for it, in another; that of the third has one set with the
\* actions on param1 and the profiles as constants on param2; that of the
\* fourth has the roles the other way round.
KeyPress == Behavior(1, "Key Press", <<ParametersSet(<<HidUsage(231, 4095)>>, <<>>)>>)

LayerTap == Behavior(2, "Layer-Tap", <<ParametersSet(<<LayerId>>, <<HidUsage(231, 0)>>)>>)

TapLayer == Behavior(3, "Tap-Layer", <<ParametersSet(<<HidUsage(231, 4095)>>, <<LayerId>>)>>)

ModTap ==
  Behavior(4, "Mod-Tap",
           <<ParametersSet(<<Constant(2, "Left Shift"), Constant(1, "Left Control")>>,
                           <<HidUsage(231, 0)>>)>>)

HoldTap ==
  Behavior(9, "Hold-Tap",
           <<ParametersSet(<<HidUsage(231, 4095)>>,
                           <<Constant(2, "Left Shift"), Constant(1, "Left Control")>>)>>)

ActionConstants ==
  <<Constant(0, "Clear Selected Profile"), Constant(1, "Next Profile"),
    Constant(2, "Previous Profile"), Constant(3, "select_profile"),
    Constant(4, "Clear All Profiles"), Constant(5, "Disconnect Profile")>>

ProfileConstants == <<Constant(0, "USB"), Constant(3, "BLE")>>

BluetoothOf(metadata) == Behavior(5, "Bluetooth", metadata)

OutputSelection ==
  Behavior(6, "Output Selection",
           <<ParametersSet(<<Constant(0, "USB"), Constant(1, "BLE"),
                             Constant(2, "Toggle")>>, <<>>)>>)

Transparent == Behavior(7, "Transparent", <<>>)

MomentaryLayer == Behavior(8, "Momentary Layer", <<ParametersSet(<<LayerId>>, <<>>)>>)

BluetoothMetadata ==
  {<<ParametersSet(ActionConstants, <<>>)>>,
   <<ParametersSet(<<ActionConstants[2], ActionConstants[3], ActionConstants[5]>>, <<>>),
     ParametersSet(<<ActionConstants[1], ActionConstants[4], ActionConstants[6]>>,
                   <<Range(0, 4)>>)>>,
   <<ParametersSet(ActionConstants, ProfileConstants)>>,
   <<ParametersSet(ProfileConstants, ActionConstants)>>}

MapOf(bs) == [id \in {b.id : b \in bs} |-> CHOOSE b \in bs : b.id = id]

BehaviorMaps ==
  {MapOf({KeyPress, LayerTap, TapLayer, ModTap, BluetoothOf(m), OutputSelection,
          Transparent, MomentaryLayer, HoldTap}) : m \in BluetoothMetadata}

\* Behavior maps of a device with few behaviors: none the panel offers in
\* any group, and plain keys and the output selection only.
SparseMaps ==
  {MapOf({Transparent, MomentaryLayer}),
   MapOf({KeyPress, OutputSelection, Transparent})}

\* --------------------------------------------------------- KeyAssignPanel
\* The panel is a record of its state (the useState values) and of the props
\* selectedBinding and layers; the behaviors prop is the behavior map. What
\* the component computes while rendering is an operator of what it is
\* computed from, and Render is the record of all of it for one render.
NoBinding == [null |-> TRUE]

NoBehavior == [none |-> TRUE]

BehaviorGroups == {"key", "layerTap", "bluetooth", "modTap", "other"}

\* The categories: "mods", "nav" and "func" are treated as "main" is.
Categories == <<"main", "media">>

BluetoothKinds == {"bluetooth", "output"}

IdsOf(seq) == {seq[i].id : i \in 1 .. Len(seq)}

Elements(seq) == {seq[i] : i \in 1 .. Len(seq)}

\* seq.find((b) => b.id === id)
Find(seq, id) ==
  IF id \in IdsOf(seq) THEN seq[CHOOSE i \in 1 .. Len(seq) : seq[i].id = id]
  ELSE NoBehavior

\* No choice for a label: choice is undefined.
NoChoice == [none |-> TRUE]

\* byNorm.get(normalizeName(label)): the last choice of that normal name.
ChoiceFor(choices, label) ==
  LET hits == SelectSeq(choices,
                        LAMBDA c : normalizeName(c.name) = normalizeName(label))
  IN IF hits = <<>> THEN NoChoice ELSE hits[Len(hits)]

\* The roles of the parameters of a bluetooth behavior (bluetoothOrder) and
\* the choice of each action label (bluetoothActions): useMemo on
\* [bluetoothBehavior].
BluetoothRoles(behavior) ==
  LET order == inferBluetoothParamOrder(behavior)
  IN [order |-> order,
      actions |-> IF order = NoOrder THEN <<>>
                  ELSE [i \in 1 .. Len(BT_ACTION_LABELS) |->
                          [label |-> BT_ACTION_LABELS[i],
                           choice |-> ChoiceFor(
                                        collectConstantChoices(behavior, order.actionParam),
                                        BT_ACTION_LABELS[i])]]]

\* The lists the panel keeps of a behavior map (useMemo on [behaviors], the
\* first on the category as well), sorted by display name; they are computed
\* once for each behavior map.
BehaviorLists(map) ==
  [quickBehaviors |->
     [i \in 1 .. Len(Categories) |->
        SortedByName(getQuickHidUsageBehaviors(map, Categories[i]))],
   layerTapBehaviors |-> SortedByName(getQuickLayerTapBehaviors(map)),
   bluetoothBehaviors |-> SortedByName(getQuickBluetoothBehaviors(map)),
   modTapBehaviors |-> SortedByName(getQuickModTapBehaviors(map)),
   roles |-> [b \in getQuickBluetoothBehaviors(map) |-> BluetoothRoles(b)]]

Memo == [map \in BehaviorMaps \cup SparseMaps |-> BehaviorLists(map)]

quickBehaviors(memo, category) ==
  memo.quickBehaviors[CHOOSE i \in 1 .. Len(Categories) : Categories[i] = category]

bluetoothBehaviorsForKind(list, bluetoothKind) ==
  LET matches == SelectSeq(list,
                           LAMBDA b : IF bluetoothKind = "output"
                                        THEN NamesOutput(b.displayName)
                                        ELSE NamesBluetooth(b.displayName))
  IN IF Len(matches) > 0 THEN matches ELSE list

\* (caps?.consumerMax || 0) > 0
SupportsConsumer(caps) == caps # NoCaps /\ caps.consumerMax > 0

CategoriesFor(behaviorGroup, usageBehavior) ==
  IF behaviorGroup = "key" \/ usageBehavior = NoBehavior THEN Categories
  ELSE IF SupportsConsumer(getHidUsageCaps(usageBehavior)) THEN Categories
  ELSE SelectSeq(Categories, LAMBDA c : c # "media")

allowedCategories(behaviorGroup, layerTapBehavior, modTapBehavior) ==
  CategoriesFor(behaviorGroup,
                IF behaviorGroup = "layerTap" THEN layerTapBehavior
                ELSE IF behaviorGroup = "modTap" THEN modTapBehavior
                ELSE NoBehavior)

\* selectedBinding?.behaviorId, selectedBinding?.param1
BehaviorIdOf(binding) == IF binding = NoBinding THEN Undefined ELSE binding.behaviorId

Param(binding, param) ==
  IF binding = NoBinding THEN Undefined
  ELSE IF param = "param1" THEN binding.param1 ELSE binding.param2

activeUsageAnyBehavior(behaviorGroup, selectedBinding, quickBehaviorId) ==
  IF behaviorGroup = "key" THEN Param(selectedBinding, "param1") ELSE Undefined

activeUsage(behaviorGroup, selectedBinding, quickBehaviorId) ==
  IF behaviorGroup = "key" /\ BehaviorIdOf(selectedBinding) = quickBehaviorId
    THEN Param(selectedBinding, "param1")
    ELSE Undefined

activeLayerTapUsage(layerTapBehavior, selectedBinding) ==
  IF layerTapBehavior = NoBehavior
       \/ BehaviorIdOf(selectedBinding) # layerTapBehavior.id
    THEN Undefined
  ELSE IF inferLayerTapParamOrder(layerTapBehavior) = NoOrder THEN Undefined
  ELSE Param(selectedBinding, inferLayerTapParamOrder(layerTapBehavior).usageParam)

activeModTapUsage(modTapBehavior, selectedBinding) ==
  IF modTapBehavior = NoBehavior
       \/ BehaviorIdOf(selectedBinding) # modTapBehavior.id
    THEN Undefined
  ELSE IF inferModTapParamOrder(modTapBehavior) = NoOrder THEN Undefined
  ELSE Param(selectedBinding, inferModTapParamOrder(modTapBehavior).usageParam)

bluetoothOrder(memo, bluetoothBehavior) ==
  IF bluetoothBehavior = NoBehavior THEN NoOrder
  ELSE memo.roles[bluetoothBehavior].order

bluetoothActions(memo, bluetoothBehavior) ==
  IF bluetoothBehavior = NoBehavior THEN <<>>
  ELSE memo.roles[bluetoothBehavior].actions

\* activeBluetooth is null.
NoActive == [none |-> TRUE]

activeBluetooth(bluetoothBehavior, order, selectedBinding) ==
  IF bluetoothBehavior = NoBehavior \/ order = NoOrder THEN NoActive
  ELSE IF selectedBinding = NoBinding
            \/ selectedBinding.behaviorId # bluetoothBehavior.id THEN NoActive
  ELSE [actionValue |-> Param(selectedBinding, order.actionParam),
        profileValue |-> IF order.profileParam = NoParam THEN Undefined
                         ELSE Param(selectedBinding, order.profileParam)]

\* bluetoothActions.find((a) => a.choice?.constant !== undefined)?.choice?.constant
firstAvailable(actions) ==
  LET with == SelectSeq(actions, LAMBDA a : a.choice # NoChoice)
  IN IF with = <<>> THEN Undefined ELSE with[1].choice.constant

\* What one render of the panel computes: the lists (memo) and the selected
\* behavior of each group, and what is computed from them.
Computed(memo, p, quick, layerTap, bluetooth, modTap) ==
  [quickBehaviors |-> quickBehaviors(memo, p.category),
   layerTapBehaviors |-> memo.layerTapBehaviors,
   bluetoothBehaviors |-> memo.bluetoothBehaviors,
   bluetoothBehaviorsForKind |->
     bluetoothBehaviorsForKind(memo.bluetoothBehaviors, p.bluetoothKind),
   modTapBehaviors |-> memo.modTapBehaviors,
   quickBehavior |-> quick,
   layerTapBehavior |-> layerTap,
   bluetoothBehavior |-> bluetooth,
   modTapBehavior |-> modTap,
   \* selectedKeyPosition !== undefined && selectedBinding !== null: the
   \* binding the keyboard passes is null when no key is selected.
   canEdit |-> p.selectedBinding # NoBinding,
   allowedCategories |-> allowedCategories(p.behaviorGroup, layerTap, modTap),
   activeUsage |-> activeUsage(p.behaviorGroup, p.selectedBinding, p.quickBehaviorId),
   activeLayerTapUsage |-> activeLayerTapUsage(layerTap, p.selectedBinding),
   activeModTapUsage |-> activeModTapUsage(modTap, p.selectedBinding),
   bluetoothOrder |-> bluetoothOrder(memo, bluetooth),
   bluetoothActions |-> bluetoothActions(memo, bluetooth),
   activeBluetooth |->
     activeBluetooth(bluetooth, bluetoothOrder(memo, bluetooth), p.selectedBinding)]

Selected(memo, p) ==
  Computed(memo, p,
           Find(quickBehaviors(memo, p.category), p.quickBehaviorId),
           Find(memo.layerTapBehaviors, p.layerTapBehaviorId),
           Find(bluetoothBehaviorsForKind(memo.bluetoothBehaviors, p.bluetoothKind),
                p.bluetoothBehaviorId),
           Find(memo.modTapBehaviors, p.modTapBehaviorId))

Render(map, p) == Selected(Memo[map], p)

\* ---------------------------------------------- the effects of the panel
\* An effect runs after a render whose dependencies differ from those of the
\* render before; it reads the state (c) and the computed values (v) of its
\* render, and its setState calls are collected (acc) for the next render.
\* Each effect below takes the three, and whether it runs, and returns what
\* is collected after it.

\* Resets the bluetooth behavior when the group or the kind changes.
resetBluetoothBehavior(run, v, c, acc) ==
  IF ~run THEN acc
  ELSE IF c.behaviorGroup # "bluetooth" THEN acc
  ELSE [acc EXCEPT !.bluetoothBehaviorId = Undefined]

\* The four effects that follow the behavior of the selected binding.
syncQuickBehavior(run, v, c, acc) ==
  IF ~run THEN acc
  ELSE IF c.selectedBinding = NoBinding THEN acc
  ELSE IF c.selectedBinding.behaviorId \in IdsOf(v.quickBehaviors)
    THEN [acc EXCEPT !.quickBehaviorId = c.selectedBinding.behaviorId]
  ELSE acc

syncLayerTapBehavior(run, v, c, acc) ==
  IF ~run THEN acc
  ELSE IF c.selectedBinding = NoBinding THEN acc
  ELSE IF c.selectedBinding.behaviorId \in IdsOf(v.layerTapBehaviors)
    THEN [acc EXCEPT !.layerTapBehaviorId = c.selectedBinding.behaviorId]
  ELSE acc

syncBluetoothBehavior(run, v, c, acc) ==
  IF ~run THEN acc
  ELSE IF c.selectedBinding = NoBinding THEN acc
  ELSE IF c.selectedBinding.behaviorId \in IdsOf(v.bluetoothBehaviors)
    THEN [acc EXCEPT !.bluetoothBehaviorId = c.selectedBinding.behaviorId,
                     !.behaviorGroup = "bluetooth"]
  ELSE acc

syncModTapBehavior(run, v, c, acc) ==
  IF ~run THEN acc
  ELSE IF c.selectedBinding = NoBinding THEN acc
  ELSE IF c.selectedBinding.behaviorId \in IdsOf(v.modTapBehaviors)
    THEN [acc EXCEPT !.modTapBehaviorId = c.selectedBinding.behaviorId,
                     !.behaviorGroup = "modTap"]
  ELSE acc

\* The layer-tap decode: the target layer is the layer of the binding.
decodeLayerTap(run, v, c, acc) ==
  LET behavior == Find(v.layerTapBehaviors, c.layerTapBehaviorId)
      layerId == Param(c.selectedBinding, inferLayerTapParamOrder(behavior).layerParam)
  IN IF ~run THEN acc
     ELSE IF c.selectedBinding = NoBinding \/ c.layerTapBehaviorId = Undefined THEN acc
     ELSE IF c.selectedBinding.behaviorId # c.layerTapBehaviorId THEN acc
     ELSE IF behavior = NoBehavior THEN acc
     ELSE IF inferLayerTapParamOrder(behavior) = NoOrder THEN acc
     ELSE IF layerId \in IdsOf(c.layers)
       THEN [acc EXCEPT !.layerTapTargetLayerId = layerId,
                        !.behaviorGroup = "layerTap"]
     ELSE acc

\* The mod-tap decode: the modifier is the modifier of the binding.
decodeModTap(run, v, c, acc) ==
  LET behavior == Find(v.modTapBehaviors, c.modTapBehaviorId)
  IN IF ~run THEN acc
     ELSE IF c.selectedBinding = NoBinding \/ c.modTapBehaviorId = Undefined THEN acc
     ELSE IF c.selectedBinding.behaviorId # c.modTapBehaviorId THEN acc
     ELSE IF behavior = NoBehavior THEN acc
     ELSE IF inferModTapParamOrder(behavior) = NoOrder THEN acc
     ELSE [acc EXCEPT !.modTapModifierValue =
             Param(c.selectedBinding, inferModTapParamOrder(behavior).modParam)]

\* The modifier is one of the choices of the mod-tap behavior.
defaultModifier(run, v, c, acc) ==
  LET behavior == Find(v.modTapBehaviors, c.modTapBehaviorId)
      choices == collectConstantChoices(behavior, inferModTapParamOrder(behavior).modParam)
  IN IF ~run THEN acc
     ELSE IF behavior = NoBehavior THEN [acc EXCEPT !.modTapModifierValue = Undefined]
     ELSE IF inferModTapParamOrder(behavior) = NoOrder
       THEN [acc EXCEPT !.modTapModifierValue = Undefined]
     ELSE IF Len(choices) = 0 THEN [acc EXCEPT !.modTapModifierValue = Undefined]
     ELSE IF c.modTapModifierValue = Undefined
       THEN [acc EXCEPT !.modTapModifierValue = choices[1].constant]
     ELSE IF \A i \in 1 .. Len(choices) : choices[i].constant # c.modTapModifierValue
       THEN [acc EXCEPT !.modTapModifierValue = choices[1].constant]
     ELSE acc

\* The four effects that keep the selected behavior one of its list: the
\* first of the list when it is undefined or not in it. Sets tells whether
\* the effect sets the state at all.
DefaultId(list, id) ==
  IF Len(list) = 0 THEN Undefined
  ELSE IF id = Undefined THEN list[1].id
  ELSE IF id \notin IdsOf(list) THEN list[1].id
  ELSE id

Sets(list, id) == Len(list) = 0 \/ id = Undefined \/ id \notin IdsOf(list)

defaultQuickBehavior(run, v, c, acc) ==
  IF ~run THEN acc
  ELSE IF Sets(v.quickBehaviors, c.quickBehaviorId)
    THEN [acc EXCEPT !.quickBehaviorId = DefaultId(v.quickBehaviors, c.quickBehaviorId)]
    ELSE acc

defaultLayerTapBehavior(run, v, c, acc) ==
  IF ~run THEN acc
  ELSE IF Sets(v.layerTapBehaviors, c.layerTapBehaviorId)
    THEN [acc EXCEPT !.layerTapBehaviorId =
            DefaultId(v.layerTapBehaviors, c.layerTapBehaviorId)]
    ELSE acc

defaultBluetoothBehaviorAnyKind(run, v, c, acc) ==
  IF ~run THEN acc
  ELSE IF Sets(v.bluetoothBehaviors, c.bluetoothBehaviorId)
    THEN [acc EXCEPT !.bluetoothBehaviorId =
            DefaultId(v.bluetoothBehaviors, c.bluetoothBehaviorId)]
    ELSE acc

defaultBluetoothBehavior(run, v, c, acc) ==
  IF ~run THEN acc
  ELSE IF Sets(v.bluetoothBehaviorsForKind, c.bluetoothBehaviorId)
    THEN [acc EXCEPT !.bluetoothBehaviorId =
            DefaultId(v.bluetoothBehaviorsForKind, c.bluetoothBehaviorId)]
    ELSE acc

defaultModTapBehavior(run, v, c, acc) ==
  IF ~run THEN acc
  ELSE IF Sets(v.modTapBehaviors, c.modTapBehaviorId)
    THEN [acc EXCEPT !.modTapBehaviorId =
            DefaultId(v.modTapBehaviors, c.modTapBehaviorId)]
    ELSE acc

\* layers[0]?.id
FirstLayerId(layers) == IF Len(layers) = 0 THEN Undefined ELSE layers[1].id

defaultTargetLayerWhenUndefined(run, v, c, acc) ==
  IF ~run THEN acc
  ELSE IF c.layerTapTargetLayerId = Undefined
    THEN [acc EXCEPT !.layerTapTargetLayerId = FirstLayerId(c.layers)]
    ELSE acc

defaultTargetLayer(run, v, c, acc) ==
  IF ~run THEN acc
  ELSE IF c.layerTapTargetLayerId = Undefined
       \/ c.layerTapTargetLayerId \notin IdsOf(c.layers)
    THEN [acc EXCEPT !.layerTapTargetLayerId = FirstLayerId(c.layers)]
    ELSE acc

allowedCategory(run, v, c, acc) ==
  IF ~run THEN acc
  ELSE IF \E i \in 1 .. Len(v.allowedCategories) : v.allowedCategories[i] = c.category
    THEN acc
    ELSE [acc EXCEPT !.category = IF Len(v.allowedCategories) = 0 THEN "main"
                                  ELSE v.allowedCategories[1]]

\* The action and the profile shown follow the selected binding when it is a
\* binding of the selected bluetooth behavior.
bluetoothValues(run, v, c, acc) ==
  IF ~run THEN acc
  ELSE IF v.bluetoothBehavior = NoBehavior \/ v.bluetoothOrder = NoOrder
    THEN [acc EXCEPT !.bluetoothActionValue = Undefined,
                     !.bluetoothProfileValue = Undefined]
  ELSE IF v.activeBluetooth # NoActive
    THEN [acc EXCEPT !.bluetoothActionValue = v.activeBluetooth.actionValue,
                     !.bluetoothProfileValue =
                       IF v.bluetoothOrder.profileParam # NoParam
                         THEN OrZero(v.activeBluetooth.profileValue)
                         ELSE Undefined]
  ELSE [acc EXCEPT !.bluetoothActionValue = firstAvailable(v.bluetoothActions),
                   !.bluetoothProfileValue = Undefined]

\* The effects of one render, in the order of their declaration. prev is the
\* render before c; first holds for the first render (every effect runs) and
\* parent for a render the keyboard caused, whose selectedBinding and layers
\* are new objects. A value computed by a memo is a new object when the memo
\* ran again, except that null stays null. u and v are what the two renders
\* computed. lists holds for a render with another behaviors prop: every
\* list is computed again, and a behavior found in one is a new object.
Effects(u, v, prev, c, first, parent, lists) ==
  LET binding == first \/ parent \/ prev.selectedBinding # c.selectedBinding
      layers == first \/ parent \/ prev.layers # c.layers
      groupOrKind == first \/ prev.behaviorGroup # c.behaviorGroup
                           \/ prev.bluetoothKind # c.bluetoothKind
      quickList == first \/ lists \/ u.quickBehaviors # v.quickBehaviors
      quickId == first \/ prev.quickBehaviorId # c.quickBehaviorId
      layerTapId == first \/ prev.layerTapBehaviorId # c.layerTapBehaviorId
      bluetoothList == first \/ lists
                             \/ u.bluetoothBehaviorsForKind # v.bluetoothBehaviorsForKind
      bluetoothId == first \/ prev.bluetoothBehaviorId # c.bluetoothBehaviorId
      modTapId == first \/ prev.modTapBehaviorId # c.modTapBehaviorId
      modifier == first \/ prev.modTapModifierValue # c.modTapModifierValue
      targetLayer == first \/ prev.layerTapTargetLayerId # c.layerTapTargetLayerId
      categories == first \/ prev.behaviorGroup # c.behaviorGroup
                          \/ u.layerTapBehavior # v.layerTapBehavior
                          \/ u.modTapBehavior # v.modTapBehavior
                          \/ prev.category # c.category
                          \/ (lists /\ v.layerTapBehavior # NoBehavior)
                          \/ (lists /\ v.modTapBehavior # NoBehavior)
      behavior == first \/ u.bluetoothBehavior # v.bluetoothBehavior
                        \/ (lists /\ v.bluetoothBehavior # NoBehavior)
      active == first \/ ((binding \/ behavior)
                            /\ ~(u.activeBluetooth = NoActive
                                   /\ v.activeBluetooth = NoActive))
      a1 == resetBluetoothBehavior(groupOrKind, v, c, c)
      a2 == syncQuickBehavior(binding \/ quickList, v, c, a1)
      a3 == syncLayerTapBehavior(binding \/ lists, v, c, a2)
      a4 == syncBluetoothBehavior(binding \/ lists, v, c, a3)
      a5 == syncModTapBehavior(binding \/ lists, v, c, a4)
      a6 == decodeLayerTap(binding \/ layers \/ layerTapId \/ lists, v, c, a5)
      a7 == decodeModTap(binding \/ modTapId \/ lists, v, c, a6)
      a8 == defaultModifier(modTapId \/ modifier \/ lists, v, c, a7)
      a9 == defaultQuickBehavior(quickList \/ quickId, v, c, a8)
      a10 == defaultLayerTapBehavior(layerTapId \/ lists, v, c, a9)
      a11 == defaultBluetoothBehavior(bluetoothList \/ bluetoothId, v, c, a10)
      a12 == defaultModTapBehavior(modTapId \/ lists, v, c, a11)
      a13 == defaultTargetLayer(layers \/ targetLayer, v, c, a12)
      a14 == allowedCategory(categories, v, c, a13)
      a15 == bluetoothValues(behavior \/ active, v, c, a14)
  IN a15

\* One render and its effects.
Pass(map, prev, c, first, parent) ==
  Effects(Render(map, prev), Render(map, c), prev, c, first, parent, FALSE)

\* The renders that follow one another until an effect pass changes nothing.
RECURSIVE Settle(_, _, _, _, _)
Rerender(map, c, next) == IF next = c THEN c ELSE Settle(map, c, next, FALSE, FALSE)

Settle(map, prev, c, first, parent) ==
  Rerender(map, c, Pass(map, prev, c, first, parent))

\* The state of the first render: the useState initial values.
Mounted(selectedBinding, layers) ==
  [behaviorGroup |-> "key", category |-> "main", bluetoothKind |-> "bluetooth",
   quickBehaviorId |-> Undefined, layerTapBehaviorId |-> Undefined,
   layerTapTargetLayerId |-> FirstLayerId(layers),
   bluetoothBehaviorId |-> Undefined, bluetoothActionValue |-> Undefined,
   bluetoothProfileValue |-> Undefined, modTapBehaviorId |-> Undefined,
   modTapModifierValue |-> Undefined,
   selectedBinding |-> selectedBinding, layers |-> layers]

\* ------------------------------------------------- the bluetooth picker
WantsProfile(label) == label \in {"Select Profile", "Clear Selected Profile"}

\* The label of the action whose choice is the value; undefined without one.
LabelOf(actions, value) ==
  LET hits == SelectSeq(actions,
                        LAMBDA a : a.choice # NoChoice /\ a.choice.constant = value)
  IN IF value = Undefined \/ hits = <<>> THEN "undefined" ELSE hits[1].label

\* The three inputs of the profile: a number input for a single range, a
\* select for constants, a select of 0 to 5 when the selected action takes a
\* profile and the metadata declares none.
ProfileSlots == 6

ProfileInput(descs, wantsProfile) ==
  IF Len(descs) = 1 /\ descs[1].kind = "range" THEN "range"
  ELSE IF Len(descs) > 0 /\ \A i \in 1 .. Len(descs) : descs[i].kind = "constant"
    THEN "constants"
  ELSE IF wantsProfile THEN "fallback"
  ELSE "none"

ProfileOptions(descs, wantsProfile) ==
  CASE ProfileInput(descs, wantsProfile) = "range" ->
         descs[1].min .. Min(descs[1].max, ProfileSlots - 1)
    [] ProfileInput(descs, wantsProfile) = "constants" ->
         {descs[i].constant : i \in 1 .. Len(descs)}
    [] ProfileInput(descs, wantsProfile) = "fallback" -> 0 .. (ProfileSlots - 1)
    [] OTHER -> {}

\* bluetoothActionValue ?? activeBluetooth?.actionValue ?? the first available
selectedAction(v, p) ==
  IF p.bluetoothActionValue # Undefined THEN p.bluetoothActionValue
  ELSE IF v.activeBluetooth # NoActive /\ v.activeBluetooth.actionValue # Undefined
    THEN v.activeBluetooth.actionValue
  ELSE firstAvailable(v.bluetoothActions)

\* profileDescs.length > 0 ? profileDescs : profileDescsAll
EitherDescs(profileDescs, profileDescsAll) ==
  IF Len(profileDescs) > 0 THEN profileDescs ELSE profileDescsAll

effectiveProfileDescs(behavior, order, action) ==
  EitherDescs(
    getProfileParamDescriptors(
      IF action # Undefined
        THEN findMetadataSetForAction(behavior, order.actionParam, action)
        ELSE NoSet,
      order.profileParam),
    IF order.profileParam # NoParam
      THEN collectConstantChoices(behavior, order.profileParam)
      ELSE <<>>)

\* The picker shows its buttons when there is a bluetooth behavior with
\* roles and an action whose constant is truthy.
PickerShown(v, p) ==
  /\ p.behaviorGroup = "bluetooth"
  /\ v.bluetoothBehavior # NoBehavior
  /\ v.bluetoothOrder # NoOrder
  /\ \E i \in 1 .. Len(v.bluetoothActions) :
       /\ v.bluetoothActions[i].choice # NoChoice
       /\ v.bluetoothActions[i].choice.constant # 0

\* What the picker of the bluetooth group computes when it renders (v is
\* what the panel computed, p its state) for the selected action, whether it
\* takes a profile and the descriptions of the profile.
PickerFor(v, p, action, wantsProfile, descs) ==
  [shown |-> TRUE,
   selectedAction |-> action,
   wantsProfile |-> wantsProfile,
   resolvedProfileParam |->
     IF v.bluetoothOrder.profileParam # NoParam THEN v.bluetoothOrder.profileParam
     ELSE OtherParam(v.bluetoothOrder.actionParam),
   effectiveProfileDescs |-> descs,
   needsProfile |-> wantsProfile \/ Len(descs) > 0,
   effectiveProfile |->
     IF p.bluetoothProfileValue # Undefined THEN p.bluetoothProfileValue
     ELSE defaultProfileValue(descs),
   profileOptions |-> ProfileOptions(descs, wantsProfile)]

PickerOf(v, p, action) ==
  PickerFor(v, p, action, WantsProfile(LabelOf(v.bluetoothActions, action)),
            effectiveProfileDescs(v.bluetoothBehavior, v.bluetoothOrder, action))

Picker(v, p) ==
  IF PickerShown(v, p) THEN PickerOf(v, p, selectedAction(v, p))
  ELSE [shown |-> FALSE]

\* The binding of an action and a profile: the action on the action
\* parameter, the profile on the other one if it is taken, 0 if not.
BluetoothBinding(v, k, action, takesProfile, profile) ==
  LET Value(param) ==
        IF v.bluetoothOrder.actionParam = param THEN action
        ELSE IF takesProfile /\ k.resolvedProfileParam = param THEN profile
        ELSE 0
  IN [behaviorId |-> v.bluetoothBehavior.id,
      param1 |-> Value("param1"), param2 |-> Value("param2")]

\* ------------------------------------------- the panel's specification
\* The layers of the keymap, as the keyboard passes them.
PanelLayers == <<[id |-> 0, name |-> "base"], [id |-> 2, name |-> "fn"]>>

\* HID usages: the page and the id, (page << 16) | id.
makeUsage(page, id) == page * 65536 + id

\* The keys of the palette of a category: A and B of the keyboard page, the
\* volume up of the consumer page.
Palette(category) ==
  IF category = "media" THEN {makeUsage(12, 233)}
  ELSE {makeUsage(7, 4), makeUsage(7, 5)}

\* The bindings of the keys that can be selected: a plain key, a layer-tap
\* of a layer the keymap has and of one it has not, a transparent key, a
\* bluetooth key and an output selection key.
PanelBindings ==
  {[behaviorId |-> 1, param1 |-> makeUsage(7, 4), param2 |-> 0],
   [behaviorId |-> 2, param1 |-> 2, param2 |-> makeUsage(7, 5)],
   [behaviorId |-> 3, param1 |-> makeUsage(7, 4), param2 |-> 1],
   [behaviorId |-> 7, param1 |-> 0, param2 |-> 0],
   [behaviorId |-> 5, param1 |-> 1, param2 |-> 0],
   [behaviorId |-> 6, param1 |-> 1, param2 |-> 0]}

\* Most handlers of the panel that run one after another.
MaxPanelSteps == 4

\* No call of onBindingChanged awaits its answer.
NoPending == [none |-> TRUE]

\* The panel after a handler ran: the renders settle, and the step is noted.
Rendered(p, parent, pending, note) ==
  /\ panel.steps < MaxPanelSteps
  /\ panel' = [r |-> Settle(behaviors, panel.r, p, FALSE, parent),
               pending |-> pending, steps |-> panel.steps + 1]
  /\ last' = note
  /\ UNCHANGED <<device, keymap, selectedLayerIndex, selectedPhysicalLayoutIndex,
                 undoStack, redoStack, performing, rpc, track, rejections,
                 conn, lockState, imp, behaviors, layouts, fetches, changes>>

SetState(p) == Rendered(p, FALSE, panel.pending, [ev |-> "state"])

\* onBindingChanged(binding): the keyboard sends the binding to the device
\* (doUpdateBinding); the panel's state is as the handler set it.
\* by names the handler, action and profile what the user chose.
Encoded(p, by, binding, action, profile) ==
  Rendered(p, FALSE,
           [binding |-> binding, by |-> by, action |-> action, profile |-> profile],
           [ev |-> "encoded", by |-> by, binding |-> binding,
            action |-> action, profile |-> profile])

\* The buttons of the groups, of the categories and of the kinds, and the
\* selects: one that sets the value the state has changes nothing.
setBehaviorGroup(g) ==
  /\ g # panel.r.behaviorGroup
  /\ SetState([panel.r EXCEPT !.behaviorGroup = g])

setCategory(c) ==
  /\ panel.r.behaviorGroup # "bluetooth"
  /\ c # panel.r.category
  /\ c \in Elements(Render(behaviors, panel.r).allowedCategories)
  /\ SetState([panel.r EXCEPT !.category = c])

setBluetoothKind(k) ==
  /\ panel.r.behaviorGroup = "bluetooth"
  /\ k # panel.r.bluetoothKind
  /\ SetState([panel.r EXCEPT !.bluetoothKind = k])

setQuickBehaviorId(id) ==
  /\ panel.r.behaviorGroup = "key"
  /\ id # panel.r.quickBehaviorId
  /\ id \in IdsOf(Render(behaviors, panel.r).quickBehaviors)
  /\ SetState([panel.r EXCEPT !.quickBehaviorId = id])

setLayerTapBehaviorId(id) ==
  /\ panel.r.behaviorGroup = "layerTap"
  /\ id # panel.r.layerTapBehaviorId
  /\ id \in IdsOf(Render(behaviors, panel.r).layerTapBehaviors)
  /\ SetState([panel.r EXCEPT !.layerTapBehaviorId = id])

setLayerTapTargetLayerId(id) ==
  /\ panel.r.behaviorGroup = "layerTap"
  /\ id # panel.r.layerTapTargetLayerId
  /\ id \in IdsOf(panel.r.layers)
  /\ SetState([panel.r EXCEPT !.layerTapTargetLayerId = id])

setModTapBehaviorId(id) ==
  /\ panel.r.behaviorGroup = "modTap"
  /\ id # panel.r.modTapBehaviorId
  /\ id \in IdsOf(Render(behaviors, panel.r).modTapBehaviors)
  /\ SetState([panel.r EXCEPT !.modTapBehaviorId = id])

\* The choices of the modifier of a mod-tap behavior, none without roles.
ModifierChoices(behavior) ==
  IF behavior = NoBehavior THEN <<>>
  ELSE IF inferModTapParamOrder(behavior) = NoOrder THEN <<>>
  ELSE collectConstantChoices(behavior, inferModTapParamOrder(behavior).modParam)

setModTapModifierValue(value) ==
  /\ panel.r.behaviorGroup = "modTap"
  /\ value # panel.r.modTapModifierValue
  /\ value \in {d.constant : d \in Elements(ModifierChoices(
                                         Render(behaviors, panel.r).modTapBehavior))}
  /\ SetState([panel.r EXCEPT !.modTapModifierValue = value])

\* The layer-tap binding of a layer and a usage, by the roles of the behavior.
layerTapBindingLayerFirst(behavior, layerId, usage) ==
  [behaviorId |-> behavior.id, param1 |-> layerId, param2 |-> usage]

layerTapBinding(behavior, layerId, usage) ==
  IF inferLayerTapParamOrder(behavior).layerParam = "param1"
    THEN [behaviorId |-> behavior.id, param1 |-> layerId, param2 |-> usage]
    ELSE [behaviorId |-> behavior.id, param1 |-> usage, param2 |-> layerId]

\* modTapModifierValue !== undefined ? modTapModifierValue : choices[0].constant
ModValue(modifier, choices) ==
  IF modifier # Undefined THEN modifier ELSE choices[1].constant

modTapBinding(behavior, modifier, usage) ==
  [behaviorId |-> behavior.id,
   param1 |-> IF inferModTapParamOrder(behavior).modParam = "param1"
                THEN ModValue(modifier, ModifierChoices(behavior)) ELSE usage,
   param2 |-> IF inferModTapParamOrder(behavior).modParam = "param2"
                THEN ModValue(modifier, ModifierChoices(behavior)) ELSE usage]

\* A key of the palette is clicked. The palette is there for the groups key,
\* layerTap and modTap when the group has its behavior, and its keys are
\* enabled when a key of the keyboard is selected.
keyBindingUsageSecond(behavior, usage) ==
  [behaviorId |-> behavior.id, param1 |-> 0, param2 |-> usage]

\* The binding of a plain key: the usage is param1.
keyBinding(behavior, usage) ==
  [behaviorId |-> behavior.id, param1 |-> usage, param2 |-> 0]

UsageClicked(p, v, usage) ==
  /\ usage \in Palette(p.category)
  /\ v.canEdit
  /\ CASE p.behaviorGroup = "key" ->
            /\ v.quickBehavior # NoBehavior
            /\ Encoded(p, "key", keyBinding(v.quickBehavior, usage),
                       Undefined, usage)
       [] p.behaviorGroup = "layerTap" ->
            /\ v.layerTapBehavior # NoBehavior
            /\ p.layerTapTargetLayerId # Undefined
            /\ inferLayerTapParamOrder(v.layerTapBehavior) # NoOrder
            /\ Encoded(p, "layerTap",
                       layerTapBinding(v.layerTapBehavior,
                                       p.layerTapTargetLayerId, usage),
                       p.layerTapTargetLayerId, usage)
       [] p.behaviorGroup = "modTap" ->
            /\ v.modTapBehavior # NoBehavior
            /\ p.modTapModifierValue # Undefined
            /\ Len(ModifierChoices(v.modTapBehavior)) > 0
            /\ Encoded(p, "modTap",
                       modTapBinding(v.modTapBehavior, p.modTapModifierValue, usage),
                       p.modTapModifierValue, usage)
       [] OTHER -> FALSE

onUsageClicked(usage) == UsageClicked(panel.r, Render(behaviors, panel.r), usage)

\* The button of an action of the bluetooth picker is clicked: the action is
\* the clicked one, the profile the one the picker shows.
ActionClicked(p, v, k, value) ==
  Encoded([p EXCEPT !.bluetoothActionValue = value,
                    !.bluetoothProfileValue =
                      IF k.needsProfile THEN k.effectiveProfile ELSE Undefined],
          "action",
          BluetoothBinding(v, k, value, k.wantsProfile, k.effectiveProfile),
          value, k.effectiveProfile)

ActionButton(p, v, i) ==
  /\ PickerShown(v, p)
  /\ v.canEdit
  /\ v.bluetoothActions[i].choice # NoChoice
  /\ ActionClicked(p, v, Picker(v, p), v.bluetoothActions[i].choice.constant)

bluetoothActionClicked(i) == ActionButton(panel.r, Render(behaviors, panel.r), i)

\* The profile input of the bluetooth picker changes: the profile is kept,
\* and the binding of the selected action with it is sent if a key is
\* selected and the selected action takes a profile.
ProfileChanged(p, v, k, nextProfile) ==
  /\ k.shown
  /\ k.needsProfile
  /\ nextProfile \in k.profileOptions
  /\ nextProfile # k.effectiveProfile
  /\ IF v.canEdit /\ k.wantsProfile /\ k.selectedAction # Undefined
       THEN Encoded([p EXCEPT !.bluetoothProfileValue = nextProfile], "profile",
                    BluetoothBinding(v, k, k.selectedAction, TRUE, nextProfile),
                    k.selectedAction, nextProfile)
       ELSE SetState([p EXCEPT !.bluetoothProfileValue = nextProfile])

ProfileInputOf(p, v, nextProfile) == ProfileChanged(p, v, Picker(v, p), nextProfile)

profileChanged(nextProfile) ==
  ProfileInputOf(panel.r, Render(behaviors, panel.r), nextProfile)

\* The device accepted the binding the panel sent: the keyboard sets it in
\* the keymap and passes it as the selected binding.
bindingChanged ==
  /\ panel.pending # NoPending
  /\ Rendered([panel.r EXCEPT !.selectedBinding = panel.pending.binding], TRUE,
              NoPending,
              [ev |-> "decoded", by |-> panel.pending.by,
               binding |-> panel.pending.binding,
               action |-> panel.pending.action, profile |-> panel.pending.profile])

\* Another key is selected, or none: its binding is the selected binding.
selectKey(binding) ==
  Rendered([panel.r EXCEPT !.selectedBinding = binding], TRUE, NoPending,
           [ev |-> "selected"])

\* The panel is rendered for the first time with a behavior map, the layers
\* and the binding of the selected key; the rest is as the editor starts.
InitPanel ==
  /\ device = InitDevice
  /\ keymap = DevKeymap(InitDevice)
  /\ selectedLayerIndex = 0
  /\ selectedPhysicalLayoutIndex = 0
  /\ undoStack = <<>>
  /\ redoStack = <<>>
  /\ performing = Idle
  /\ rpc = <<>>
  /\ last = [ev |-> "init"]
  /\ track = Untracked
  /\ rejections = 0
  /\ conn = TRUE
  /\ lockState = Unlocked
  /\ imp = NoImport
  /\ behaviors \in BehaviorMaps
  /\ layouts = DeviceLayouts
  /\ fetches = {}
  /\ changes = 0
  /\ \E b \in PanelBindings \cup {NoBinding} :
       panel = [r |-> Settle(behaviors, Mounted(b, PanelLayers),
                             Mounted(b, PanelLayers), TRUE, FALSE),
                pending |-> NoPending, steps |-> 0]

NextPanel ==
  \/ \E g \in BehaviorGroups : setBehaviorGroup(g)
  \/ \E i \in 1 .. Len(Categories) : setCategory(Categories[i])
  \/ \E k \in BluetoothKinds : setBluetoothKind(k)
  \/ \E id \in DOMAIN behaviors : setQuickBehaviorId(id)
  \/ \E id \in DOMAIN behaviors : setLayerTapBehaviorId(id)
  \/ \E id \in IdsOf(PanelLayers) : setLayerTapTargetLayerId(id)
  \/ \E id \in DOMAIN behaviors : setModTapBehaviorId(id)
  \/ \E value \in 1 .. 2 : setModTapModifierValue(value)
  \/ \E usage \in Palette("main") \cup Palette("media") : onUsageClicked(usage)
  \/ \E i \in 1 .. Len(BT_ACTION_LABELS) : bluetoothActionClicked(i)
  \/ \E n \in 0 .. (ProfileSlots - 1) : profileChanged(n)
  \/ bindingChanged
  \/ \E b \in PanelBindings \cup {NoBinding} : selectKey(b)

SpecPanel == InitPanel /\ [][NextPanel]_vars

\* ------------------------------------------------------------------------
\* The groups of the behaviors

\* The pickers that offer a behavior: the lists of the layer-tap, mod-tap and
\* bluetooth/output behaviors, and the plain-key list of any category.
GroupsOffering(memo, b) ==
  {g \in {"layerTap", "modTap", "bluetooth", "key"} :
     CASE g = "layerTap" -> b \in Elements(memo.layerTapBehaviors)
       [] g = "modTap" -> b \in Elements(memo.modTapBehaviors)
       [] g = "bluetooth" -> b \in Elements(memo.bluetoothBehaviors)
       [] OTHER -> \E i \in 1 .. Len(Categories) :
                     b \in Elements(quickBehaviors(memo, Categories[i]))}

\* C18: every behavior of the map is in the list of at most one group (and in
\* group "other" when in none); so that no behavior offered by the layer-tap
\* or mod-tap picker is offered by the plain-key picker as well.
C18_OneGroupEach ==
  \A b \in ValuesOf(behaviors) :
    Cardinality(GroupsOffering(Memo[behaviors], b)) <= 1

\* ------------------------------------------------------------------------
\* The layer-tap codec

\* The metadata is one set with a layer id on one parameter and a HID usage
\* on the other.
OneSetOf(b, kind1, kind2) ==
  /\ Len(b.metadata) = 1
  /\ Len(b.metadata[1].param1) = 1 /\ b.metadata[1].param1[1].kind = kind1
  /\ Len(b.metadata[1].param2) = 1 /\ b.metadata[1].param2[1].kind = kind2

LayerThenUsage(b) == OneSetOf(b, "layerId", "hidUsage")

UsageThenLayer(b) == OneSetOf(b, "hidUsage", "layerId")

\* C15: a behavior whose metadata is [{param1: [layerId], param2: [hidUsage]}]
\* is a layer-tap behavior with the layer on param1 and the usage on param2;
\* the binding the panel encodes for a layer L and a usage U with it is
\* {param1: L, param2: U}, and once that binding is the selected one the
\* panel shows layer L and usage U. Likewise with the parameters swapped.
C15_LayerTapRoundTrip ==
  /\ \A b \in ValuesOf(behaviors) :
       /\ LayerThenUsage(b) =>
            /\ b \in Elements(Memo[behaviors].layerTapBehaviors)
            /\ inferLayerTapParamOrder(b)
                 = [layerParam |-> "param1", usageParam |-> "param2"]
       /\ UsageThenLayer(b) =>
            /\ b \in Elements(Memo[behaviors].layerTapBehaviors)
            /\ inferLayerTapParamOrder(b)
                 = [layerParam |-> "param2", usageParam |-> "param1"]
  /\ (last.ev \in {"encoded", "decoded"} /\ last.by = "layerTap") =>
       /\ LayerThenUsage(behaviors[last.binding.behaviorId]) =>
            /\ last.binding.param1 = last.action
            /\ last.binding.param2 = last.profile
       /\ UsageThenLayer(behaviors[last.binding.behaviorId]) =>
            /\ last.binding.param1 = last.profile
            /\ last.binding.param2 = last.action
  /\ (last.ev = "decoded" /\ last.by = "layerTap") =>
       /\ panel.r.layerTapTargetLayerId = last.action
       /\ Render(behaviors, panel.r).activeLayerTapUsage = last.profile

\* A layer-tap binding with the layer on param2, encoded for the second layer
\* of the list, was confirmed and is shown as that layer and its usage.
C15_Witness ==
  /\ last.ev = "decoded"
  /\ last.by = "layerTap"
  /\ UsageThenLayer(behaviors[last.binding.behaviorId])
  /\ last.action = PanelLayers[2].id
  /\ last.binding.param2 = last.action
  /\ panel.r.layerTapTargetLayerId = last.action
  /\ Render(behaviors, panel.r).activeLayerTapUsage = last.binding.param1

\* ------------------------------------------------------------------------
\* Decoding the binding of another behavior

\* The binding is not one of the behavior selected in a group.
OfAnother(behavior, binding) ==
  behavior = NoBehavior \/ BehaviorIdOf(binding) # behavior.id

NoValueOfAnother(v, binding) ==
  /\ OfAnother(v.quickBehavior, binding) => v.activeUsage = Undefined
  /\ OfAnother(v.layerTapBehavior, binding) => v.activeLayerTapUsage = Undefined
  /\ OfAnother(v.modTapBehavior, binding) => v.activeModTapUsage = Undefined
  /\ OfAnother(v.bluetoothBehavior, binding) => v.activeBluetooth = NoActive

\* C19: when the behaviorId of the selected binding is not the id of the
\* behavior selected in a group, the panel decodes no value for that group:
\* the active usage, the layer-tap usage, the mod-tap usage and the bluetooth
\* action and profile are undefined.
C19_NoValueForOtherBehavior ==
  NoValueOfAnother(Render(behaviors, panel.r), panel.r.selectedBinding)

\* In group key the user selected another behavior of the list than the one of
\* the selected binding, and no usage is active.
C19_Witness ==
  /\ last.ev = "state"
  /\ panel.r.selectedBinding # NoBinding
  /\ panel.r.behaviorGroup = "key"
  /\ panel.r.quickBehaviorId # Undefined
  /\ panel.r.selectedBinding.behaviorId # panel.r.quickBehaviorId
  /\ panel.r.selectedBinding.behaviorId
       \in IdsOf(Render(behaviors, panel.r).quickBehaviors)
  /\ Render(behaviors, panel.r).quickBehavior # NoBehavior
  /\ Render(behaviors, panel.r).activeUsage = Undefined

\* ------------------------------------------------------------------------
\* The bluetooth / output codec

\* What the panel decodes of the selected binding for the bluetooth behavior
\* it shows: the action, and the profile as well when one was chosen.
DecodesAs(v, action, profile, chosen) ==
  /\ v.activeBluetooth # NoActive
  /\ v.activeBluetooth.actionValue = action
  /\ chosen => v.activeBluetooth.profileValue = profile

\* C16: once the binding the bluetooth picker encoded for an action and a
\* profile is the selected binding, the panel decodes that action of it and,
\* where the profile was chosen in the profile input (a range, the declared
\* constants or the fallback 0 to 5), that profile.
C16_BluetoothRoundTrip ==
  (/\ last.ev = "decoded"
   /\ last.by \in {"action", "profile"}
   /\ panel.r.bluetoothBehaviorId = last.binding.behaviorId)
  => DecodesAs(Render(behaviors, panel.r), last.action, last.profile,
               last.by = "profile")

\* The binding carries the action on the action parameter of the roles, and
\* on the other parameter the profile if the action is Select Profile or
\* Clear Selected Profile or the metadata declares values for that
\* parameter, 0 if not.
EncodesChosen(b, roles, binding, action, profile) ==
  /\ Param(binding, roles.order.actionParam) = action
  /\ Param(binding, OtherParam(roles.order.actionParam))
       = IF \/ WantsProfile(LabelOf(roles.actions, action))
            \/ Len(FlatParams(b.metadata, OtherParam(roles.order.actionParam))) > 0
           THEN profile
           ELSE 0

\* C17: the binding the bluetooth picker encodes has the chosen action on
\* the action parameter and, on the profile parameter, the chosen profile if
\* the chosen action is Select Profile or Clear Selected Profile or the
\* behavior declares profile values, and 0 otherwise, whichever action was
\* selected before.
C17_BluetoothEncode ==
  (last.ev = "encoded" /\ last.by \in {"action", "profile"})
  => EncodesChosen(behaviors[last.binding.behaviorId],
                   Memo[behaviors].roles[behaviors[last.binding.behaviorId]],
                   last.binding, last.action, last.profile)

\* ------------------------------------------------------------------------
\* A rejected physical layout

\* The step is the handling of the device's rejection of the
\* setActivePhysicalLayout call that is the oldest outstanding one.
RejectsLayout ==
  /\ rpc # <<>>
  /\ Head(rpc).owner = "effect"
  /\ rpc' = Tail(rpc)
  /\ last' = [ev |-> "effect", ok |-> FALSE]

\* The edit that selected the layout stands: the layout is the selected one
\* and the undo list holds the entry that selects it.
LayoutEditStands(index, selected, undo) ==
  /\ selected = index
  /\ \E k \in 1 .. Len(undo) :
       /\ undo[k].kind = "physicalLayout"
       /\ undo[k].i = index
       /\ undo[k].oldLayout # index

\* C22: when the device rejects a set-active-physical-layout edit, the
\* visible state is the one before the attempt: the replica is unchanged,
\* the rejected layout is not the selected one and no undo entry selects it.
C22_RejectedLayoutAbandoned ==
  [][RejectsLayout =>
       /\ keymap' = keymap
       /\ ~LayoutEditStands(Head(rpc).req.index, selectedPhysicalLayoutIndex',
                            undoStack')]_vars


\* ------------------------------------------ classification of behaviors
\* The metadata functions of the panel are pure: they are applied here to
\* behavior maps drawn from generated metadata. A map holds one candidate
\* behavior and at most one behavior beside it.
MaxSets == 2

\* The parameter lists of a candidate for layer-tap, for mod-tap and for
\* Bluetooth: description lists of one kind, empty ones and mixed ones.
LayerLists ==
  {<<>>, <<LayerId>>, <<HidUsage(101, 0)>>, <<HidUsage(0, 652)>>,
   <<LayerId, HidUsage(101, 0)>>}

ModLists ==
  {<<>>, <<Constant(2, "Left Shift")>>, <<HidUsage(101, 0)>>,
   <<Constant(2, "Left Shift"), HidUsage(101, 0)>>, <<LayerId>>}

ActionLists ==
  {<<>>, <<Constant(1, "Next Profile")>>,
   <<Constant(3, "Select Profile"), Constant(1, "Next Profile")>>,
   <<Constant(0, "USB")>>, <<Constant(3, "BLE")>>, <<Range(0, 4)>>}

SetsOver(lists) == {ParametersSet(p1, p2) : p1 \in lists, p2 \in lists}

MetadataOver(lists) ==
  UNION {[1 .. n -> SetsOver(lists)] : n \in 0 .. MaxSets}

Candidates ==
  {Behavior(10, name, metadata) :
     name \in {"Bluetooth", "Transparent"},
     metadata \in MetadataOver(LayerLists) \cup MetadataOver(ModLists)
                    \cup MetadataOver(ActionLists)}

ClassifyMaps ==
  {MapOf({c} \cup beside) :
     c \in Candidates, beside \in {{}, {KeyPress}, {OutputSelection}}}

InitClassify ==
  /\ device = InitDevice
  /\ keymap = DevKeymap(InitDevice)
  /\ selectedLayerIndex = 0
  /\ selectedPhysicalLayoutIndex = 0
  /\ undoStack = <<>>
  /\ redoStack = <<>>
  /\ performing = Idle
  /\ rpc = <<>>
  /\ last = [ev |-> "init"]
  /\ track = Untracked
  /\ rejections = 0
  /\ conn = TRUE
  /\ lockState = Unlocked
  /\ imp = NoImport
  /\ behaviors \in ClassifyMaps
  /\ layouts = DeviceLayouts
  /\ fetches = {}
  /\ changes = 0
  /\ panel = Unrendered

\* The lists of the panel for a category and a Bluetooth kind.
classify(category, kind) ==
  /\ last' = [ev |-> "classified", category |-> category, kind |-> kind,
              key |-> getQuickHidUsageBehaviors(behaviors, category),
              layerTap |-> getQuickLayerTapBehaviors(behaviors),
              modTap |-> getQuickModTapBehaviors(behaviors),
              bluetooth |-> getQuickBluetoothBehaviors(behaviors),
              forKind |-> bluetoothBehaviorsForKind(
                            SortedByName(getQuickBluetoothBehaviors(behaviors)),
                            kind)]
  /\ UNCHANGED <<device, keymap, selectedLayerIndex, selectedPhysicalLayoutIndex,
                 undoStack, redoStack, performing, rpc, track, rejections,
                 conn, lockState, imp, behaviors, layouts, fetches, changes,
                 panel>>

\* inferBluetoothParamOrder of the key preview: the first set naming a known
\* action decides as in the panel; without such a set there are no roles.
previewInferBluetoothParamOrder(behavior) == BluetoothOrderOf(behavior.metadata)

\* The role mappings of a behavior, and the one the key preview computes.
inferRoles(id) ==
  /\ last' = [ev |-> "roles", id |-> id,
              layerTap |-> inferLayerTapParamOrder(behaviors[id]),
              modTap |-> inferModTapParamOrder(behaviors[id]),
              bluetooth |-> inferBluetoothParamOrder(behaviors[id]),
              preview |-> previewInferBluetoothParamOrder(behaviors[id])]
  /\ UNCHANGED <<device, keymap, selectedLayerIndex, selectedPhysicalLayoutIndex,
                 undoStack, redoStack, performing, rpc, track, rejections,
                 conn, lockState, imp, behaviors, layouts, fetches, changes,
                 panel>>

\* The constant choices of a parameter of a behavior.
constantChoices(id, param) ==
  /\ last' = [ev |-> "choices", id |-> id, param |-> param,
              choices |-> collectConstantChoices(behaviors[id], param)]
  /\ UNCHANGED <<device, keymap, selectedLayerIndex, selectedPhysicalLayoutIndex,
                 undoStack, redoStack, performing, rpc, track, rejections,
                 conn, lockState, imp, behaviors, layouts, fetches, changes,
                 panel>>

NextClassify ==
  \/ \E i \in 1 .. Len(Categories) : \E k \in BluetoothKinds :
       classify(Categories[i], k)
  \/ \E id \in DOMAIN behaviors : inferRoles(id)
  \/ \E id \in DOMAIN behaviors : \E param \in {"param1", "param2"} :
       constantChoices(id, param)

SpecClassify == InitClassify /\ [][NextClassify]_vars


\* ------------------------------------------------ statement C23 (plain key)
\* A behavior whose metadata is one set with one HID usage on param1 and
\* nothing on param2.
UsageOnParam1(b) ==
  /\ Len(b.metadata) = 1
  /\ Len(b.metadata[1].param1) = 1
  /\ b.metadata[1].param1[1].kind = "hidUsage"
  /\ b.metadata[1].param1[1].keyboardMax > 0
  /\ b.metadata[1].param2 = <<>>

KeyboardOnly == Behavior(10, "Key Press", <<ParametersSet(<<HidUsage(101, 0)>>, <<>>)>>)

\* C23: a behavior whose metadata is one set with a HID usage of the keyboard
\* page on param1 and nothing on param2 is among the plain-key behaviors,
\* also beside the other behaviors of the map, and the binding of a plain key
\* is that of the behavior chosen among them with the clicked usage as
\* param1 and 0 as param2.
C23_PlainKey ==
  /\ \A b \in ValuesOf(behaviors) :
       UsageOnParam1(b) =>
         /\ b \in getQuickHidUsageBehaviors(behaviors, "main")
         /\ getHidUsageCaps(b).keyboardMax = b.metadata[1].param1[1].keyboardMax
  /\ KeyboardOnly \in
       getQuickHidUsageBehaviors(MapOf(ValuesOf(behaviors) \cup {KeyboardOnly}), "main")
  /\ (last.ev = "encoded" /\ last.by = "key") =>
       \E i \in 1 .. Len(Categories) :
         \E b \in getQuickHidUsageBehaviors(behaviors, Categories[i]) :
           /\ last.profile \in Palette(Categories[i])
           /\ last.binding = [behaviorId |-> b.id, param1 |-> last.profile,
                              param2 |-> 0]

\* A plain key was assigned with a plain-key behavior of another shape.
C23_Witness ==
  /\ last.ev = "encoded"
  /\ last.by = "key"
  /\ last.binding.param1 = last.profile
  /\ \E b \in ValuesOf(behaviors) : UsageOnParam1(b)
  /\ ~UsageOnParam1(behaviors[last.binding.behaviorId])


\* ----------------------------------- statements C24 to C26 (tap behaviors)
\* Some set of the behavior has the one kind on a parameter and the other
\* kind on the other parameter.
OnDifferentParams(b, kind1, kind2) ==
  \E i \in 1 .. Len(b.metadata) : \E param \in {"param1", "param2"} :
    /\ WithKind(ParamOf(b.metadata[i], param), kind1)
    /\ WithKind(ParamOf(b.metadata[i], OtherParam(param)), kind2)

\* C24: every behavior of the layer-tap list has a role mapping, and a
\* behavior with a layer id and a HID usage of which no set has the two on
\* different parameters is not in the list.
C24_LayerTapDecidable ==
  last.ev = "classified" =>
    /\ \A b \in last.layerTap : inferLayerTapParamOrder(b) # NoOrder
    /\ \A b \in ValuesOf(behaviors) :
         (hasLayerIdParam(b) /\ hasHidUsageParam(b)
            /\ ~OnDifferentParams(b, "layerId", "hidUsage"))
           => b \notin last.layerTap

\* All the descriptions of a parameter are of one kind, and there is one.
OnlyKind(seq, kind) ==
  /\ seq # <<>>
  /\ \A i \in 1 .. Len(seq) : seq[i].kind = kind

\* C25: a layer-tap role mapping is that of a set whose layer parameter
\* holds layer ids only and whose usage parameter holds HID usages only.
C25_LayerTapCleanSet ==
  (last.ev = "roles" /\ last.layerTap # NoOrder) =>
    \E i \in 1 .. Len(behaviors[last.id].metadata) :
      /\ OnlyKind(ParamOf(behaviors[last.id].metadata[i], last.layerTap.layerParam),
                  "layerId")
      /\ OnlyKind(ParamOf(behaviors[last.id].metadata[i], last.layerTap.usageParam),
                  "hidUsage")

\* C26: a behavior of the mod-tap list has no layer id, has a constant on
\* one parameter and a HID usage on the other, and has a role mapping of
\* two different parameters.
C26_ModTapMembers ==
  last.ev = "classified" =>
    \A b \in last.modTap :
      /\ ~hasLayerIdParam(b)
      /\ \E param \in {"param1", "param2"} :
           /\ WithKind(FlatParams(b.metadata, param), "constant")
           /\ WithKind(FlatParams(b.metadata, OtherParam(param)), "hidUsage")
      /\ inferModTapParamOrder(b) # NoOrder
      /\ inferModTapParamOrder(b).modParam # inferModTapParamOrder(b).usageParam


\* ------------------------------------- statement C27 (bluetooth roles)
\* hasConstantParam && !hasHidUsageParam && !hasLayerIdParam
BluetoothEligible(b) ==
  hasConstantParam(b) /\ ~hasHidUsageParam(b) /\ ~hasLayerIdParam(b)

\* The names of the constants of a parameter that are canonical actions.
Overlap(b, param) == Score(FlatParams(b.metadata, param))

\* C27: with a constant named as a canonical action, the action parameter of
\* a bluetooth behavior is one whose constants name the most of them, and
\* the other parameter is the profile parameter exactly when the behavior
\* describes values for it; without such a constant there is a mapping only
\* of a parameter that alone has constants beside a parameter with no
\* description, and it has no profile parameter.
C27_BluetoothRoles ==
  (last.ev = "roles" /\ BluetoothEligible(behaviors[last.id])) =>
    LET b == behaviors[last.id]
        order == last.bluetooth
    IN IF Overlap(b, "param1") + Overlap(b, "param2") > 0
         THEN /\ order # NoOrder
              /\ Overlap(b, order.actionParam)
                   >= Overlap(b, OtherParam(order.actionParam))
              /\ order.profileParam =
                   IF FlatParams(b.metadata, OtherParam(order.actionParam)) # <<>>
                     THEN OtherParam(order.actionParam) ELSE NoParam
         ELSE order # NoOrder =>
                /\ WithKind(FlatParams(b.metadata, order.actionParam), "constant")
                /\ FlatParams(b.metadata, OtherParam(order.actionParam)) = <<>>
                /\ order.profileParam = NoParam


\* ------------------------------------- statement C28 (bluetooth kinds)
\* The display name of the behavior contains the kind.
NamesKind(b, kind) ==
  IF kind = "output" THEN NamesOutput(b.displayName)
  ELSE NamesBluetooth(b.displayName)

\* C28: the behaviors offered for a kind are the bluetooth behaviors of the
\* map whose name contains the kind, and all the bluetooth behaviors of the
\* map if the name of none does.
C28_BehaviorsForKind ==
  last.ev = "classified" =>
    LET eligible == {b \in ValuesOf(behaviors) : BluetoothEligible(b)}
        named == {b \in eligible : NamesKind(b, last.kind)}
    IN Elements(last.forKind) = IF named # {} THEN named ELSE eligible


\* ---------------------------------- statement C29 (plain-key behaviors)
\* The descriptions of a behavior in the order of its sets, param1 before
\* param2 in each, and the HID usages among them.
RECURSIVE Descriptions(_)
Descriptions(metadata) ==
  IF metadata = <<>> THEN <<>>
  ELSE Head(metadata).param1 \o Head(metadata).param2 \o Descriptions(Tail(metadata))

UsagesOf(b) == SelectSeq(Descriptions(b.metadata), LAMBDA d : d.kind = "hidUsage")

\* The category suits the behavior: the maximum of its page is above 0.
Suits(b, category) ==
  IF category = "media" THEN UsagesOf(b)[1].consumerMax > 0
  ELSE UsagesOf(b)[1].keyboardMax > 0

\* C29: the plain-key behaviors of a category are the behaviors with a HID
\* usage that the category suits, all the behaviors with a HID usage if it
\* suits none, and there is none only if no behavior has a HID usage.
C29_PlainKeyBehaviors ==
  last.ev = "classified" =>
    LET eligible == {b \in ValuesOf(behaviors) : UsagesOf(b) # <<>>}
        suited == {b \in eligible : Suits(b, last.category)}
    IN /\ last.key = IF suited # {} THEN suited ELSE eligible
       /\ last.key = {} <=> eligible = {}

\* The category suits no behavior and all those with a HID usage are
\* offered, one of them with its usage on param2 only.
C29_Witness ==
  /\ last.ev = "classified"
  /\ last.category = "media"
  /\ last.key # {}
  /\ \A b \in last.key : ~Suits(b, "media")
  /\ \E b \in last.key : ~WithKind(FlatParams(b.metadata, "param1"), "hidUsage")


\* ---------------------------------- statement C30 (constant choices)
\* The constants the behavior describes for a parameter, in all its sets.
Declared(b, param) == Constants(FlatParams(b.metadata, param))

ValuesIn(seq) == {seq[i].constant : i \in 1 .. Len(seq)}

\* C30: the choices of a parameter are descriptions of constants of that
\* parameter, one for each value some set describes for it and no two of
\* one value, in the order of their names.
C30_ConstantChoices ==
  last.ev = "choices" =>
    LET declared == Declared(behaviors[last.id], last.param)
        choices == last.choices
    IN /\ ValuesIn(choices) = ValuesIn(declared)
       /\ \A i, j \in 1 .. Len(choices) :
            choices[i].constant = choices[j].constant => i = j
       /\ Elements(choices) \subseteq Elements(declared)
       /\ \A i, j \in 1 .. Len(choices) :
            i < j => NameRank(choices[i].name) <= NameRank(choices[j].name)

\* Two sets describe one value for the parameter, the choices are several
\* and not in the order met, and the other parameter has a value of its own.
C30_Witness ==
  /\ last.ev = "choices"
  /\ Len(last.choices) >= 2
  /\ Len(Declared(behaviors[last.id], last.param)) > Len(last.choices)
  /\ last.choices # FirstOfEach(Declared(behaviors[last.id], last.param), {})
  /\ ValuesIn(Declared(behaviors[last.id], OtherParam(last.param)))
       \ ValuesIn(last.choices) # {}


\* ------------------------------------- statement C31 (set-binding frame)
\* The step handles the response that confirms the set-binding call of the
\* stack's Performing step.
ConfirmsSetBinding ==
  /\ rpc # <<>>
  /\ Head(rpc).owner = "stack"
  /\ performing # Idle
  /\ performing.cmd.kind = "setBinding"
  /\ performing' = Idle
  /\ last'.ok

\* The replica km2 is km but for the binding at (layer, keyPosition).
SameButBinding(km, km2, layer, keyPosition, binding) ==
  /\ km2.availableLayers = km.availableLayers
  /\ Len(km2.layers) = Len(km.layers)
  /\ \A j \in 1 .. Len(km.layers) :
       /\ km2.layers[j].id = km.layers[j].id
       /\ km2.layers[j].name = km.layers[j].name
       /\ Len(km2.layers[j].bindings) = Len(km.layers[j].bindings)
       /\ \A k \in 1 .. Len(km.layers[j].bindings) :
            km2.layers[j].bindings[k] =
              IF j = layer + 1 /\ k = keyPosition + 1 THEN binding
              ELSE km.layers[j].bindings[k]

Confirms(kind) ==
  /\ rpc # <<>>
  /\ Head(rpc).owner = "stack"
  /\ performing # Idle
  /\ performing.cmd.kind = kind
  /\ performing' = Idle
  /\ last'.ok

\* A confirmed add-layer puts the layer of the device at the reported index
\* of the replica and selects it; its confirmed inverse takes the layer at
\* that index, the added one, from device and replica.
AddLayerStep ==
  /\ (Confirms("addLayer") /\ performing.mode # "undo") =>
       LET index == Len(device.layers)
       IN /\ index < Len(keymap'.layers)
          /\ keymap'.layers[index + 1] = device'.layers[index + 1]
          /\ selectedLayerIndex' = index
  /\ (Confirms("addLayer") /\ performing.mode = "undo") =>
       LET index == performing.cmd.index
       IN /\ index < Len(keymap.layers)
          /\ keymap.layers[index + 1].id = performing.cmd.added
          /\ device.layers[index + 1].id = performing.cmd.added
          /\ keymap'.layers = SpliceOut(keymap.layers, index)
          /\ device'.layers = SpliceOut(device.layers, index)

\* C32: when an add-layer is confirmed, the replica holds the layer the
\* device added at the index the device reported and that layer is the
\* selected one; when its inverse is confirmed, device and replica lose the
\* layer at that index, and it is the layer that was added.
C32_AddLayerAndInverse == [][AddLayerStep]_vars



\* ------------------------------------------ edits while an import runs
\* importKeymap awaits its calls one after another and the page stays in
\* use meanwhile: a keymap of two layers of one key is edited through the
\* command stack while a document that gives each layer another binding is
\* imported. The device rejects only the calls it cannot accept.
MixedLayers ==
  <<[id |-> 0, name |-> DefaultName, bindings |-> <<BindingB>>],
    [id |-> 1, name |-> DefaultName, bindings |-> <<BindingB>>]>>

MixedDocuments ==
  {[json |-> TRUE, isArray |-> TRUE,
    layers |-> <<[bindings |-> <<BindingA>>], [bindings |-> <<BindingA>>]>>]}

InitMixed ==
  /\ device = ImportDevice(MixedLayers)
  /\ keymap = DevKeymap(device)
  /\ selectedLayerIndex = 0
  /\ selectedPhysicalLayoutIndex = 0
  /\ undoStack = <<>>
  /\ redoStack = <<>>
  /\ performing = Idle
  /\ rpc = <<>>
  /\ last = [ev |-> "init"]
  /\ track = Untracked
  /\ rejections = MaxRejections
  /\ conn = TRUE
  /\ lockState = Unlocked
  /\ imp = NoImport
  /\ behaviors = BehaviorMapOf(Len(DeviceBehaviors))
  /\ layouts = DeviceLayouts
  /\ fetches = {}
  /\ changes = 0
  /\ panel = Unrendered

NextMixed ==
  \/ \E i \in 0 .. (NumSlots - 1) : SelectLayer(i)
  \/ \E k \in KeyPositions, b \in Bindings : doUpdateBinding(k, b)
  \/ \E start, end \in 0 .. (NumSlots - 1) : moveLayer(start, end)
  \/ removeLayer
  \/ Undo
  \/ \E ok \in BOOLEAN : Respond(ok)
  \/ imp = NoImport /\ \E doc \in MixedDocuments : importKeymap(doc)
  \/ \E ok \in BOOLEAN : importRespond(ok)

SpecMixed == InitMixed /\ [][NextMixed]_vars

\* --------------------------------- statement C33 (position of the update)
\* The layer at the position is the layer of the id.
LayerAt(km, position, layerId) ==
  /\ km # Unloaded
  /\ position < Len(km.layers)
  /\ km.layers[position + 1].id = layerId

\* A confirmed set-binding of the stack, forward or inverse, updates the
\* replica at the position of the layer whose id its call carried.
UpdatesLayerSent ==
  ConfirmsSetBinding =>
    LayerAt(keymap, performing.cmd.layer, Head(rpc).req.layerId)

\* The step handles the response that confirms a call of importKeymap, which
\* updates the replica.
ImportUpdates ==
  /\ rpc # <<>>
  /\ Head(rpc).owner = "import"
  /\ imp' # imp
  /\ imp'.pc # "failed"

\* C33: when a set-binding of the stack, forward or inverse, or a step of an
\* import updates the replica at a layer position, the layer at that
\* position is the layer whose id the call carried.
C33_UpdateAtLayerSent ==
  [][/\ UpdatesLayerSent
     /\ ImportUpdates => LayerAt(keymap, imp.layerIndex, Head(rpc).req.layerId)]_vars


\* ------------------------------------- statement C38 (import and history)
\* The step is one of importKeymap: its start or the handling of a response
\* to one of its calls.
ImportStep == imp' # imp

\* C38: no step of an import changes the undo list or the redo list.
C38_ImportKeepsHistory ==
  [][ImportStep => (undoStack' = undoStack /\ redoStack' = redoStack)]_vars

\* An import that had a call confirmed awaits another one while both lists
\* hold entries.
C38_Witness ==
  /\ imp # NoImport
  /\ imp.pc = "awaiting"
  /\ Len(imp.calls) >= 2
  /\ undoStack # <<>>
  /\ redoStack # <<>>


\* ------------------------------------------ statement C35 (layer budget)
\* layers.length + availableLayers of a replica.
SlotsOf(km) == Len(km.layers) + km.availableLayers

\* The step handles an error response.
HandlesRejection ==
  /\ HandlesResponse
  /\ last'.ev \in {"settled", "effect"}
  /\ ~last'.ok

\* C35: layers.length + availableLayers of the replica is the number of
\* layer slots in every state, and the handling of an error response changes
\* neither the number of layers nor availableLayers.
C35_BudgetFollowsLayers ==
  /\ [](keymap # Unloaded => SlotsOf(keymap) = NumSlots)
  /\ [][HandlesRejection =>
          /\ Len(keymap'.layers) = Len(keymap.layers)
          /\ keymap'.availableLayers = keymap.availableLayers]_vars

\* The removal of a layer was undone in a replica that had a layer added:
\* all the slots are in use again.
C35_Witness ==
  /\ last.ev = "settled"
  /\ last.kind = "removeLayer"
  /\ last.mode = "undo"
  /\ last.ok
  /\ rejections > 0
  /\ Len(keymap.layers) = NumSlots
  /\ keymap.availableLayers = 0

\* ------------------------------------------------------------------------
\* C34. When a key is selected whose binding references a bluetooth or
\* output behavior B of the panel's list, the effects settle with the
\* bluetooth group active, B the bluetooth behavior being edited, and the
\* action shown the action value of the binding.
SelectedBluetoothKey ==
  /\ last.ev = "selected"
  /\ BehaviorIdOf(panel.r.selectedBinding) \in IdsOf(Memo[behaviors].bluetoothBehaviors)

ActionOf(binding) ==
  LET order == Memo[behaviors].roles[behaviors[binding.behaviorId]].order
  IN IF order = NoOrder THEN Undefined ELSE Param(binding, order.actionParam)

C34_BluetoothKeySelected ==
  SelectedBluetoothKey =>
    /\ panel.r.behaviorGroup = "bluetooth"
    /\ panel.r.bluetoothBehaviorId = panel.r.selectedBinding.behaviorId
    /\ panel.r.bluetoothActionValue = ActionOf(panel.r.selectedBinding)

\* ------------------------------------------------------------------------
\* The panel while its props change: the behaviors the device reports are
\* fetched again, layers are added and removed, keys are selected, and the
\* user changes the group, the category, the kind and the selects.

\* The behavior maps the device reports: one with behaviors of every group,
\* and the sparse ones.
EffectMaps ==
  {MapOf({KeyPress, LayerTap, TapLayer, ModTap, OutputSelection, Transparent,
          MomentaryLayer, HoldTap, BluetoothOf(<<ParametersSet(ActionConstants, <<>>)>>)})}
    \cup SparseMaps

\* The layer lists the keyboard passes: two layers, one left, none.
EffectLayers == {PanelLayers, <<PanelLayers[1]>>, <<>>}

\* The renders after the behaviors prop changed from old to map: the first
\* with every list computed again, the following as after any setState.
Reloaded(old, map, c) ==
  Rerender(map, c, Effects(Render(old, c), Render(map, c), c, c, FALSE, FALSE, TRUE))

\* useBehaviors() has another map of behaviors.
behaviorsChanged(map) ==
  /\ panel.steps < MaxPanelSteps
  /\ behaviors' = map
  /\ panel' = [r |-> Reloaded(behaviors, map, panel.r),
               pending |-> panel.pending, steps |-> panel.steps + 1]
  /\ last' = [ev |-> "behaviors"]
  /\ UNCHANGED <<device, keymap, selectedLayerIndex, selectedPhysicalLayoutIndex,
                 undoStack, redoStack, performing, rpc, track, rejections,
                 conn, lockState, imp, layouts, fetches, changes>>

\* The keymap has other layers: the keyboard passes the new list.
layersChanged(layers) ==
  /\ layers # panel.r.layers
  /\ Rendered([panel.r EXCEPT !.layers = layers], TRUE, panel.pending,
              [ev |-> "layers"])

InitEffects ==
  /\ device = InitDevice
  /\ keymap = DevKeymap(InitDevice)
  /\ selectedLayerIndex = 0
  /\ selectedPhysicalLayoutIndex = 0
  /\ undoStack = <<>>
  /\ redoStack = <<>>
  /\ performing = Idle
  /\ rpc = <<>>
  /\ last = [ev |-> "init"]
  /\ track = Untracked
  /\ rejections = 0
  /\ conn = TRUE
  /\ lockState = Unlocked
  /\ imp = NoImport
  /\ behaviors \in EffectMaps
  /\ layouts = DeviceLayouts
  /\ fetches = {}
  /\ changes = 0
  /\ \E b \in PanelBindings \cup {NoBinding}, layers \in EffectLayers :
       panel = [r |-> Settle(behaviors, Mounted(b, layers), Mounted(b, layers),
                             TRUE, FALSE),
                pending |-> NoPending, steps |-> 0]

NextEffects ==
  \/ \E map \in EffectMaps : behaviorsChanged(map)
  \/ \E layers \in EffectLayers : layersChanged(layers)
  \/ \E b \in PanelBindings \cup {NoBinding} : selectKey(b)
  \/ \E g \in BehaviorGroups : setBehaviorGroup(g)
  \/ \E i \in 1 .. Len(Categories) : setCategory(Categories[i])
  \/ \E k \in BluetoothKinds : setBluetoothKind(k)
  \/ \E id \in DOMAIN behaviors : setQuickBehaviorId(id)
  \/ \E id \in DOMAIN behaviors : setLayerTapBehaviorId(id)
  \/ \E id \in IdsOf(PanelLayers) : setLayerTapTargetLayerId(id)
  \/ \E id \in DOMAIN behaviors : setModTapBehaviorId(id)
  \/ \E usage \in Palette("main") \cup Palette("media") : onUsageClicked(usage)

SpecEffects == InitEffects /\ [][NextEffects]_vars

\* ------------------------------------------------------------------------
\* The selected behavior of a group is one of the list the group offers, and
\* undefined when the list is empty.
InOrNone(id, list) == IF Len(list) = 0 THEN id = Undefined ELSE id \in IdsOf(list)

GroupsSettled(v, p) ==
  /\ InOrNone(p.quickBehaviorId, v.quickBehaviors)
  /\ InOrNone(p.layerTapBehaviorId, v.layerTapBehaviors)
  /\ InOrNone(p.bluetoothBehaviorId, v.bluetoothBehaviorsForKind)
  /\ InOrNone(p.modTapBehaviorId, v.modTapBehaviors)

\* Most renders that follow the render of a change.
MaxRenders == 4

\* The effects of the render c collected next: no effect sets another state
\* after at most n more renders.
RECURSIVE SettlesIn(_, _, _, _)
SettlesIn(n, map, c, next) ==
  \/ next = c
  \/ n > 0 /\ SettlesIn(n - 1, map, next, Pass(map, c, next, FALSE, FALSE))

\* The panel with another category, another kind or another selected
\* binding: what the render after the change starts from.
CategoryChanges(v, p) ==
  {[p EXCEPT !.category = c] : c \in Elements(v.allowedCategories) \ {p.category}}

KindChanges(p) == {[p EXCEPT !.bluetoothKind = k] : k \in BluetoothKinds \ {p.bluetoothKind}}

BindingChanges(p) ==
  {[p EXCEPT !.selectedBinding = b] : b \in PanelBindings \cup {NoBinding}}

\* C37. After a change of the behaviors, of the category, of the kind or of
\* the selected binding the effects stop setting state after finitely many
\* renders, and in the state they leave the selected behavior of each group
\* (plain key, layer-tap, bluetooth, mod-tap) is one of the list the group
\* offers, or undefined exactly when that list is empty.
C37_EffectsSettle ==
  LET p == panel.r
      v == Render(behaviors, p)
  IN /\ GroupsSettled(v, p)
     /\ \A c \in CategoryChanges(v, p) \cup KindChanges(p) :
          SettlesIn(MaxRenders, behaviors, c, Pass(behaviors, p, c, FALSE, FALSE))
     /\ \A c \in BindingChanges(p) :
          SettlesIn(MaxRenders, behaviors, c, Pass(behaviors, p, c, FALSE, TRUE))
     /\ \A map \in EffectMaps :
          SettlesIn(MaxRenders, map, p,
                    Effects(Render(behaviors, p), Render(map, p), p, p,
                            FALSE, FALSE, TRUE))

\* The behaviors were fetched again while a key was selected and none of
\* them is a bluetooth behavior: no bluetooth behavior is selected.
C37_Witness ==
  /\ last.ev = "behaviors"
  /\ panel.r.selectedBinding # NoBinding
  /\ Len(Render(behaviors, panel.r).bluetoothBehaviorsForKind) = 0
  /\ panel.r.bluetoothBehaviorId = Undefined

\* ------------------------------------------------------------------------
\* The target layer of the layer-tap group is a layer of the list, and
\* undefined when the list is empty.
TargetInLayers(p) ==
  IF Len(p.layers) = 0 THEN p.layerTapTargetLayerId = Undefined
  ELSE p.layerTapTargetLayerId \in IdsOf(p.layers)

\* The layer of a layer-tap binding: the parameter with the layer role.
LayerOf(binding) ==
  Param(binding, inferLayerTapParamOrder(behaviors[binding.behaviorId]).layerParam)

\* C39. Once the effects have settled the target layer of the layer-tap
\* group is the id of a layer of the current layer list (undefined only
\* when there is no layer), and the binding a layer-tap key click encodes
\* holds the id of a layer of the list, never that of a removed one.
C39_TargetLayerExists ==
  /\ TargetInLayers(panel.r)
  /\ last.ev = "encoded" /\ last.by = "layerTap" =>
       LayerOf(last.binding) \in IdsOf(panel.r.layers)

\* A layer-tap is encoded for a key whose binding holds a layer the list
\* has no more.
C39_Witness ==
  /\ last.ev = "encoded"
  /\ last.by = "layerTap"
  /\ panel.r.selectedBinding = [behaviorId |-> 2, param1 |-> 2,
                                param2 |-> makeUsage(7, 5)]
  /\ panel.r.layers = <<PanelLayers[1]>>
  /\ LayerOf(last.binding) = 0

\* ------------------------------------------------------------------------
\* C36. The key preview and the editing panel compute the same bluetooth
\* roles for every behavior: the same action parameter and the same profile
\* parameter, or no roles in both.
C36_PreviewRolesAgree ==
  last.ev = "roles" => last.preview = last.bluetooth

\* ------------------------------------------------------------ key tester
\* KeyboardEvent.code of a physical key: a prefix followed by a tail that is
\* a name (name, else "") or a decimal number (n, else -1). "KeyA" is Key
\* and A, "Digit5" Digit and 5, "F1" F and 1, "Numpad7" Numpad and 7,
\* "NumpadAdd" Numpad and Add, "CapsLock" no prefix and CapsLock.
Code(prefix, name, n) == [prefix |-> prefix, name |-> name, n |-> n]

Letters ==
  <<"A", "B", "C", "D", "E", "F", "G", "H", "I", "J", "K", "L", "M",
    "N", "O", "P", "Q", "R", "S", "T", "U", "V", "W", "X", "Y", "Z">>

\* code.charCodeAt(3) of a letter: "A" is 65.
charCodeAt(letter) == 64 + CHOOSE i \in 1 .. Len(Letters) : Letters[i] = letter

\* (page << 16) | id
hid_usage_from_page_and_id(page, id) == page * 65536 + id

\* The cases of the switch on the code: the name and the id of the usage.
NamedKeys ==
  <<<<"Enter", 40>>, <<"Escape", 41>>, <<"Backspace", 42>>, <<"Tab", 43>>,
    <<"Space", 44>>, <<"Minus", 45>>, <<"Equal", 46>>, <<"BracketLeft", 47>>,
    <<"BracketRight", 48>>, <<"Backslash", 49>>, <<"Semicolon", 51>>,
    <<"Quote", 52>>, <<"Backquote", 53>>, <<"Comma", 54>>, <<"Period", 55>>,
    <<"Slash", 56>>, <<"CapsLock", 57>>, <<"PrintScreen", 70>>,
    <<"ScrollLock", 71>>, <<"Pause", 72>>, <<"Insert", 73>>, <<"Home", 74>>,
    <<"PageUp", 75>>, <<"Delete", 76>>, <<"End", 77>>, <<"PageDown", 78>>,
    <<"ArrowRight", 79>>, <<"ArrowLeft", 80>>, <<"ArrowDown", 81>>,
    <<"ArrowUp", 82>>, <<"ControlLeft", 224>>, <<"ShiftLeft", 225>>,
    <<"AltLeft", 226>>, <<"MetaLeft", 227>>, <<"ControlRight", 228>>,
    <<"ShiftRight", 229>>, <<"AltRight", 230>>, <<"MetaRight", 231>>>>

\* The cases of the switch on the rest of a Numpad code.
NumpadKeys ==
  <<<<"Enter", 88>>, <<"Add", 87>>, <<"Subtract", 86>>, <<"Multiply", 85>>,
    <<"Divide", 84>>, <<"Decimal", 99>>>>

\* The id of the case of a name, -1 without a case.
CaseOf(cases, name) ==
  IF \E i \in 1 .. Len(cases) : cases[i][1] = name
    THEN cases[CHOOSE i \in 1 .. Len(cases) : cases[i][1] = name][2]
    ELSE Undefined

\* keyboardCodeToHidUsage(code): the usage of the keyboard page of a
\* physical key, null (-1) for a key without one.
keyboardCodeToHidUsage(code) ==
  IF code.prefix = "Key" /\ code.name \in Elements(Letters)
    THEN hid_usage_from_page_and_id(7, 4 + (charCodeAt(code.name) - 65))
  ELSE IF code.prefix = "Digit" /\ code.n \in 0 .. 9
    THEN hid_usage_from_page_and_id(7, IF code.n = 0 THEN 39 ELSE 29 + code.n)
  ELSE IF code.prefix = "F" /\ code.n >= 1 /\ code.n <= 12
    THEN hid_usage_from_page_and_id(7, 57 + (code.n - 1))
  ELSE IF code.prefix = "" /\ CaseOf(NamedKeys, code.name) # Undefined
    THEN hid_usage_from_page_and_id(7, CaseOf(NamedKeys, code.name))
  ELSE IF code.prefix = "Numpad" /\ code.n \in 0 .. 9
    THEN hid_usage_from_page_and_id(7, 89 + code.n)
  ELSE IF code.prefix = "Numpad" /\ CaseOf(NumpadKeys, code.name) # Undefined
    THEN hid_usage_from_page_and_id(7, CaseOf(NumpadKeys, code.name))
  ELSE Undefined

\* Most function keys of a keyboard: F13 has a code and no usage here.
MaxFunctionKey == 13

\* The codes of the keys of a keyboard: those the function has a usage for,
\* and some it has none for.
KeyCodes ==
  {Code("Key", Letters[i], -1) : i \in 1 .. Len(Letters)}
    \cup {Code("Digit", "", n) : n \in 0 .. 9}
    \cup {Code("F", "", n) : n \in 1 .. MaxFunctionKey}
    \cup {Code("", NamedKeys[i][1], -1) : i \in 1 .. Len(NamedKeys)}
    \cup {Code("", name, -1) : name \in {"NumLock", "ContextMenu"}}
    \cup {Code("Numpad", "", n) : n \in 0 .. 9}
    \cup {Code("Numpad", NumpadKeys[i][1], -1) : i \in 1 .. Len(NumpadKeys)}
    \cup {Code("Numpad", "Equal", -1)}

\* No key event yet.
NoKey == [none |-> TRUE]

\* The newest event of the key tester, and the one before it.
TesterEvent(kind, code) ==
  /\ last' = [ev |-> "key", kind |-> kind, code |-> code,
              usage |-> keyboardCodeToHidUsage(code),
              before |-> IF last.ev = "key"
                           THEN [code |-> last.code, usage |-> last.usage]
                           ELSE NoKey]
  /\ UNCHANGED <<device, keymap, selectedLayerIndex, selectedPhysicalLayoutIndex,
                 undoStack, redoStack, performing, rpc, track, rejections,
                 conn, lockState, imp, behaviors, layouts, fetches, changes,
                 panel>>

onKeyDown(code) == TesterEvent("down", code)

onKeyUp(code) == TesterEvent("up", code)

NextTester ==
  \/ \E code \in KeyCodes : onKeyDown(code)
  \/ \E code \in KeyCodes : onKeyUp(code)

SpecTester == Init /\ [][NextTester]_vars

\* C40. keyboardCodeToHidUsage is injective on the codes it has a usage for:
\* two different physical keys (letters, digits, F1 to F12, named keys such
\* as CapsLock, modifiers, the numpad digits and operators) never have the
\* same HID usage.
C40_CodesInjective ==
  /\ last.ev = "key"
  /\ last.before # NoKey
  /\ last.code # last.before.code
  /\ last.usage # Undefined
  /\ last.before.usage # Undefined
  => last.usage # last.before.usage

====
